---- MODULE Spec2Model ----
(***************************************************************************)
(* django-cache-me-if-you-can: the queryset cache (registry.py), its       *)
(* invalidation engine and scheduler (signals.py) and the task hand-off    *)
(* (tasks.py), as a state machine over the backing store, the external     *)
(* cache store, the options registry and the transaction/on_commit state.  *)
(*                                                                         *)
(* Strings that the code builds and compares (cache keys, glob patterns)   *)
(* are sequences of tokens, so that "*cache_me:table:a.m" and              *)
(* "cache_me:table:a.m" are different strings and a glob is matched        *)
(* token by token.                                                         *)
(***************************************************************************)
EXTENDS Integers, Sequences, FiniteSets, TLC

\* ------------------------------------------------------------------ bounds
MaxRows == 2        \* primary keys are 1..MaxRows
MaxDepth == 2       \* nesting depth of transaction.atomic() blocks
MaxQueue == 1       \* tasks waiting in the task runner's queue

Models == {"m1", "m2"}
Pks == 1..MaxRows
Focus == {"m1"}               \* the entity the single-entity scenarios act on
QueryShapes == {"all", "f1"}   \* Model.objects.all() and .filter(pk=1)

\* ------------------------------------------------------------------ state
VARIABLES
    enabled,        \* settings.DJANGO_CACHE_ME_ON
    asyncEnabled,   \* settings.DJANGO_CACHE_ME_ASYNC_ENABLED
    onCommit,       \* settings.DJANGO_CACHE_ME_ASYNC_ON_COMMIT
    warmDefault,    \* settings.DJANGO_CACHE_ME_WARM_ON_INVALIDATE
    celery,         \* TRUE: celery.shared_task is importable; FALSE: the shim
    backend,        \* what caches["default"] can do (see _delete_cache_keys_by_pattern)
    faults,         \* the external calls that raise at present (store or database down)
    registry,       \* cache_me_registry._registry: model -> options
    connected,      \* models whose post_save/post_delete call auto_invalidate_cache
    db,             \* the backing store: model -> ordered rows (primary keys)
    store,          \* the external cache store: key -> [value, timeout]
    txn,            \* open transaction blocks, outermost first
    queue,          \* tasks handed to the task runner and not yet run
    readers,        \* per process: where its list(qs) stands inside _cache_queryset
    injected,       \* per model: the wrappers _inject_cache_invalidation put around save/delete
    last            \* what the last operation did (history, for the properties)

settingsVars == <<enabled, asyncEnabled, onCommit, warmDefault, celery, backend, faults>>
vars == <<enabled, asyncEnabled, onCommit, warmDefault, celery, backend, faults,
          registry, connected, db, store, txn, queue, readers, injected, last>>

\* (mutation) the global switch is not consulted
is_cache_enabled_AlwaysOn == TRUE

\* ------------------------------------------------------------------ settings.py
is_cache_enabled == enabled

DJANGO_CACHE_ME_TIMEOUT == 300

\* ------------------------------------------------------------------ strings
RECURSIVE GlobMatch(_, _)
\* Does the string s match the glob pattern p ("*" matches any run of tokens).
GlobMatch(p, s) ==
    IF p = <<>> THEN s = <<>>
    ELSE IF Head(p) = "*"
         THEN GlobMatch(Tail(p), s) \/ (s # <<>> /\ GlobMatch(p, Tail(s)))
         ELSE s # <<>> /\ Head(s) = Head(p) /\ GlobMatch(Tail(p), Tail(s))

\* f"{model._meta.app_label}.{model._meta.model_name}"
ModelLabel(m) == "app." \o m

\* ------------------------------------------------------------------ the cache store
EmptyStore == [k \in {} |-> [value |-> <<>>, timeout |-> 0]]

\* (mutation) a hit only when the cached value is truthy: "if cached_result:"
CacheHas_Truthy(st, key) == key \in DOMAIN st /\ st[key].value # <<>>

\* cache.get(key): the stored value; absent keys are asked with CacheHas first
CacheHas(st, key) == key \in DOMAIN st
CacheGet(st, key) == st[key].value

\* (mutation) the computed result is returned but never written to the store
CacheSet_Lost(st, key, value, timeout) == st

\* cache.set(key, value, timeout)
CacheSet(st, key, value, timeout) ==
    [k \in DOMAIN st \cup {key} |->
        IF k = key THEN [value |-> value, timeout |-> timeout] ELSE st[k]]

\* (mutation) a delete that leaves an empty entry under the key
CacheDelete_Tombstone(st, key) == CacheSet(st, key, <<>>, 0)

\* cache.delete(key): removes exactly that key
CacheDelete(st, key) == [k \in DOMAIN st \ {key} |-> st[k]]

\* cache.delete_pattern(pattern) of a pattern-capable backend
CacheDeletePattern(st, pattern) ==
    [k \in {x \in DOMAIN st : ~GlobMatch(pattern, x)} |-> st[k]]

\* ------------------------------------------------------------------ querysets
\* CachedQuerySet.__init__
NewCachedQuerySet(m) ==
    [model |-> m, q |-> "all", cls |-> "CachedQuerySet",
     use_cache |-> TRUE, is_permanent_cache |-> FALSE]

\* PermanentCachedQuerySet.__init__
NewPermanentCachedQuerySet(m) ==
    [NewCachedQuerySet(m) EXCEPT !.cls = "PermanentCachedQuerySet",
                                 !.is_permanent_cache = TRUE]

\* QuerySet._clone builds a fresh instance of the same class with the same query
FreshOfClass(qs) ==
    IF qs.cls = "PermanentCachedQuerySet"
    THEN [NewPermanentCachedQuerySet(qs.model) EXCEPT !.q = qs.q]
    ELSE [NewCachedQuerySet(qs.model) EXCEPT !.q = qs.q]

\* (mutation) the duplicate starts from the constructor's defaults
Clone_DropsFlags(qs) == FreshOfClass(qs)

\* CachedQuerySet._clone
Clone(qs) ==
    [FreshOfClass(qs) EXCEPT !.use_cache = qs.use_cache,
                             !.is_permanent_cache = qs.is_permanent_cache]

\* CachedQuerySet.no_cache
no_cache(qs) == [Clone(qs) EXCEPT !.use_cache = FALSE]

\* CachedQuerySet.permanent_cache
permanent_cache(qs) == [Clone(qs) EXCEPT !.is_permanent_cache = TRUE]

\* CachedManager.get_queryset, CachedManager.no_cache, CachedManager.permanent_cache
get_queryset(m) == NewCachedQuerySet(m)
manager_no_cache(m) == no_cache(get_queryset(m))
manager_permanent_cache(m) == NewPermanentCachedQuerySet(m)

\* QuerySet.filter / QuerySet.all: a clone with the refined query
Refine(qs, q) == [Clone(qs) EXCEPT !.q = q]

\* The querysets an application builds for model m
QuerySetsOf(m) ==
    { Refine(base, q) :
        base \in { get_queryset(m), manager_no_cache(m),
                   permanent_cache(get_queryset(m)),
                   manager_permanent_cache(m),
                   no_cache(manager_permanent_cache(m)) },
        q \in QueryShapes }

NoQuerySet == [model |-> "", q |-> "", cls |-> "",
               use_cache |-> FALSE, is_permanent_cache |-> FALSE]

\* ------------------------------------------------------------------ backing store
\* QuerySet.iterator(): the rows the query selects, in table order
Execute(tbl, qs) ==
    IF qs.q = "all" THEN tbl[qs.model]
    ELSE SelectSeq(tbl[qs.model], LAMBDA r : r = 1)

\* str(self.query): the SQL of the query
QueryStr(qs) ==
    IF qs.q = "all" THEN "SELECT * FROM " \o qs.model
    ELSE "SELECT * FROM " \o qs.model \o " WHERE id = 1"

\* hashlib.md5(s).hexdigest(): a digest, distinct for the distinct strings here
Md5(s) == "md5[" \o s \o "]"

\* ------------------------------------------------------------------ registry.py
get_options(m) == IF m \in DOMAIN registry THEN <<registry[m]>> ELSE <<>>
is_registered(m) == m \in DOMAIN registry

\* CachedQuerySet._generate_cache_key
CacheType(qs, regular) == IF qs.is_permanent_cache THEN "permanent" ELSE regular

\* self.query as an object of the running process: its id() and whether
\* str(self.query) compiles (an EmptyResultSet query does not)
QueryObjects == [id : 1..2, compiles : BOOLEAN]
Compiled == [id |-> 1, compiles |-> TRUE]

\* (mutation) the key is always derived from the identity of the query object
query_str_ById(qs, query) == "query_id_" \o ToString(query.id)

\* query_str of _generate_cache_key: str(self.query), or the fallback
\* f"query_id_{id(self.query)}" when compiling the query raises
query_str(qs, query) ==
    IF query.compiles THEN QueryStr(qs) ELSE "query_id_" \o ToString(query.id)

\* _generate_cache_key of the queryset qs whose self.query is the object query
GenerateCacheKey(qs, query_type, query) ==
    IF query_type = "table"
    THEN <<"cache_me", ":", CacheType(qs, "table"), ":", ModelLabel(qs.model)>>
    ELSE <<"cache_me", ":", CacheType(qs, "queryset"), ":", ModelLabel(qs.model),
           ":", Md5(query_str(qs, query))>>

\* ... for the queries of the scenarios, which all compile
_generate_cache_key(qs, query_type) == GenerateCacheKey(qs, query_type, Compiled)

\* CachedQuerySet._get_timeout (options.timeout: <<>> is None, <<t>> is t)
_get_timeout(qs) ==
    LET options == get_options(qs.model) IN
    IF options # <<>> /\ options[1].timeout # <<>> /\ options[1].timeout[1] # 0
    THEN options[1].timeout[1]
    ELSE DJANGO_CACHE_ME_TIMEOUT

_should_cache_all(qs) ==
    LET options == get_options(qs.model) IN
    options # <<>> /\ options[1].cache_table

_should_cache_queryset(qs) ==
    LET options == get_options(qs.model) IN
    options # <<>> /\ options[1].cache_queryset

_is_all_query(qs) == qs.q = "all"

\* (mutation) an unfiltered query is cached only as a table
DecideKey_TableOnly(qs) ==
    IF _is_all_query(qs) /\ _should_cache_all(qs)
    THEN <<_generate_cache_key(qs, "table")>>
    ELSE IF ~_is_all_query(qs) /\ _should_cache_queryset(qs)
    THEN <<_generate_cache_key(qs, "queryset")>>
    ELSE <<>>

\* The key the evaluation of qs uses, <<>> when policy does not cache it
\* (the should_cache / cache_key decision of both _cache_queryset methods)
DecideKey(qs) ==
    IF _is_all_query(qs) /\ _should_cache_all(qs)
    THEN <<_generate_cache_key(qs, "table")>>
    ELSE IF ~_is_all_query(qs) /\ _should_cache_queryset(qs)
    THEN <<_generate_cache_key(qs, "queryset")>>
    ELSE IF _is_all_query(qs) /\ _should_cache_queryset(qs) /\ ~_should_cache_all(qs)
    THEN <<_generate_cache_key(qs, "queryset")>>
    ELSE <<>>

Direct(qs, st, tbl) ==
    [result |-> Execute(tbl, qs), store |-> st, outcome |-> "direct",
     executed |-> TRUE, key |-> <<>>]

Hit(st, key) ==
    [result |-> CacheGet(st, key), store |-> st, outcome |-> "hit",
     executed |-> FALSE, key |-> <<key>>]

\* (mutation) the regular path without the "if not result" early return
CachedQuerySet_cache_queryset_StoresEmpty(qs, st, tbl) ==
    IF ~qs.use_cache \/ ~is_cache_enabled THEN Direct(qs, st, tbl)
    ELSE IF get_options(qs.model) = <<>> THEN Direct(qs, st, tbl)
    ELSE LET cache_key == DecideKey(qs) IN
         IF cache_key = <<>> THEN Direct(qs, st, tbl)
         ELSE IF CacheHas(st, cache_key[1]) THEN Hit(st, cache_key[1])
         ELSE LET result == Execute(tbl, qs) IN
              [result |-> result,
               store |-> CacheSet(st, cache_key[1], result, _get_timeout(qs)),
               outcome |-> "miss", executed |-> TRUE, key |-> cache_key]

\* (mutation) the regular path without the _use_cache test
CachedQuerySet_cache_queryset_IgnoresNoCache(qs, st, tbl) ==
    IF ~is_cache_enabled THEN Direct(qs, st, tbl)
    ELSE IF get_options(qs.model) = <<>> THEN Direct(qs, st, tbl)
    ELSE LET cache_key == DecideKey(qs) IN
         IF cache_key = <<>> THEN Direct(qs, st, tbl)
         ELSE IF CacheHas(st, cache_key[1]) THEN Hit(st, cache_key[1])
         ELSE LET result == Execute(tbl, qs) IN
              IF result = <<>>
              THEN [result |-> result, store |-> st, outcome |-> "empty",
                    executed |-> TRUE, key |-> cache_key]
              ELSE [result |-> result,
                    store |-> CacheSet(st, cache_key[1], result, _get_timeout(qs)),
                    outcome |-> "miss", executed |-> TRUE, key |-> cache_key]

\* CachedQuerySet._cache_queryset
CachedQuerySet_cache_queryset(qs, st, tbl) ==
    IF ~qs.use_cache \/ ~is_cache_enabled THEN Direct(qs, st, tbl)
    ELSE IF get_options(qs.model) = <<>> THEN Direct(qs, st, tbl)
    ELSE LET cache_key == DecideKey(qs) IN
         IF cache_key = <<>> THEN Direct(qs, st, tbl)
         ELSE IF CacheHas(st, cache_key[1]) THEN Hit(st, cache_key[1])
         ELSE LET result == Execute(tbl, qs) IN
              IF result = <<>>
              THEN [result |-> result, store |-> st, outcome |-> "empty",
                    executed |-> TRUE, key |-> cache_key]
              ELSE [result |-> result,
                    store |-> CacheSet(st, cache_key[1], result, _get_timeout(qs)),
                    outcome |-> "miss", executed |-> TRUE, key |-> cache_key]

\* PermanentCachedQuerySet._cache_queryset
PermanentCachedQuerySet_cache_queryset(qs, st, tbl) ==
    IF ~is_cache_enabled THEN Direct(qs, st, tbl)
    ELSE IF ~qs.use_cache THEN Direct(qs, st, tbl)
    ELSE IF get_options(qs.model) = <<>> THEN Direct(qs, st, tbl)
    ELSE LET cache_key == DecideKey(qs) IN
         IF cache_key = <<>> THEN Direct(qs, st, tbl)
         ELSE IF CacheHas(st, cache_key[1]) THEN Hit(st, cache_key[1])
         ELSE LET result == Execute(tbl, qs) IN
              [result |-> result,
               store |-> CacheSet(st, cache_key[1], result, _get_timeout(qs)),
               outcome |-> "miss", executed |-> TRUE, key |-> cache_key]

\* an exception leaves _cache_queryset; attempted: the query had been started
Raised(st, key, attempted) ==
    [result |-> <<>>, store |-> st, outcome |-> "raised", executed |-> attempted,
     key |-> key]

\* (mutation) a failing query is caught and answered with an empty result
WithFaults_MasksFailure(st, r, direct) ==
    IF r.outcome = "direct"
    THEN IF "db_read" \in faults THEN [r EXCEPT !.result = <<>>] ELSE r
    ELSE IF "cache_get" \in faults THEN Raised(st, r.key, FALSE)
    ELSE IF r.outcome = "hit" THEN r
    ELSE IF "db_read" \in faults
    THEN [r EXCEPT !.result = <<>>, !.store = st, !.outcome = "empty"]
    ELSE IF "cache_set" \in faults /\ r.outcome = "miss" THEN Raised(st, r.key, TRUE)
    ELSE r

\* the external calls of _cache_queryset, none of them inside a try: cache.get,
\* then list(super().iterator()), then cache.set; the first that fails raises.
\* r is what the method does when none fails, direct the uncached execution.
WithFaults(st, r, direct) ==
    IF r.outcome = "direct"
    THEN IF "db_read" \in faults THEN Raised(st, r.key, TRUE) ELSE r
    ELSE IF "cache_get" \in faults THEN Raised(st, r.key, FALSE)
    ELSE IF r.outcome = "hit" THEN r
    ELSE IF "db_read" \in faults THEN Raised(st, r.key, TRUE)
    ELSE IF "cache_set" \in faults /\ r.outcome = "miss" THEN Raised(st, r.key, TRUE)
    ELSE r

\* list(qs): the class's _cache_queryset
_cache_queryset(qs, st, tbl) ==
    WithFaults(st,
               IF qs.cls = "PermanentCachedQuerySet"
               THEN PermanentCachedQuerySet_cache_queryset(qs, st, tbl)
               ELSE CachedQuerySet_cache_queryset(qs, st, tbl),
               Direct(qs, st, tbl))

\* ------------------------------------------------------------------ signals.py
\* entries of the call log: which function ran, with which arguments, and
\* whether the call raised
InvCall(m, p) ==
    [fn |-> "invalidate_model_cache", model |-> m, permanent |-> p, warm |-> FALSE,
     raised |-> FALSE]
WarmCall(m) ==
    [fn |-> "_run_warmers_for_model", model |-> m, permanent |-> FALSE, warm |-> TRUE,
     raised |-> FALSE]
DelayCall(m, p, warm, raised) ==
    [fn |-> "delay", model |-> m, permanent |-> p, warm |-> warm, raised |-> raised]
\* an exception that leaves schedule_invalidation
Escaped(m) ==
    [fn |-> "raise", model |-> m, permanent |-> FALSE, warm |-> FALSE, raised |-> TRUE]
\* an exception that an except clause caught
Caught(m) ==
    [fn |-> "caught", model |-> m, permanent |-> FALSE, warm |-> FALSE, raised |-> FALSE]
\* a call of schedule_invalidation
SchedCall(m, p) ==
    [fn |-> "schedule_invalidation", model |-> m, permanent |-> p, warm |-> FALSE,
     raised |-> FALSE]

\* BaseCache.make_key: the key as the cache server holds it, "prefix:version:key"
KeyPrefix == IF backend = "redis_prefixed" THEN "p" ELSE ""
RawKey(k) == <<KeyPrefix, ":", "1", ":">> \o k

\* search_pattern of the Redis SCAN branch
SearchPattern(pattern) ==
    IF KeyPrefix # "" THEN <<KeyPrefix, ":", "*">> \o pattern ELSE pattern

\* client.scan_iter(match=search_pattern) over the server's keys, then
\* client.delete(*keys_to_delete)
ScanDelete(st, pattern) ==
    [k \in {x \in DOMAIN st : ~GlobMatch(SearchPattern(pattern), RawKey(x))} |-> st[k]]

\* (mutation) every backend is treated as able to delete by pattern
_delete_cache_keys_by_pattern_Enumerates(st, pattern) == CacheDeletePattern(st, pattern)

\* (mutation) no branch of the pattern deletion finds a key
_delete_cache_keys_by_pattern_Nothing(st, pattern) == st

\* _delete_cache_keys_by_pattern. backend is what caches["default"] offers:
\* "delete_pattern" (django-redis), "redis" / "redis_prefixed" (a client with
\* scan_iter behind _cache.get_client, without / with KEY_PREFIX), "scan_iter"
\* (scan_iter on the cache object itself), "plain" (none of these)
_delete_cache_keys_by_pattern(st, pattern) ==
    IF backend = "delete_pattern" THEN CacheDeletePattern(st, pattern)
    ELSE IF backend \in {"redis", "redis_prefixed"} THEN ScanDelete(st, pattern)
    ELSE IF backend = "scan_iter" THEN CacheDeletePattern(st, pattern)
    ELSE st    \* "doesn't support pattern deletion": logged, nothing deleted

\* (mutation) the pattern does not name the entity
QuerysetPattern_AnyModel(m, kind) == <<"*", "cache_me", ":", kind, ":", "*">>

\* f"*cache_me:table:{model_name}" and the other three strings of the engine
TableCacheKey(m, kind) == <<"*", "cache_me", ":", kind, ":", ModelLabel(m)>>
QuerysetPattern(m, kind) == <<"*", "cache_me", ":", kind, ":", ModelLabel(m), ":", "*">>

\* (mutation) the permanent entries are purged whatever the flag says
invalidate_model_cache_AlwaysPermanent(st, m, invalidate_permanent) ==
    IF ~is_cache_enabled THEN st
    ELSE IF ~is_registered(m) THEN st
    ELSE LET s1 == CacheDelete(st, TableCacheKey(m, "table"))
             s2 == _delete_cache_keys_by_pattern(s1, QuerysetPattern(m, "queryset"))
         IN  _delete_cache_keys_by_pattern(
                 CacheDelete(s2, TableCacheKey(m, "permanent")),
                 QuerysetPattern(m, "permanent"))

\* invalidate_model_cache: the store it leaves
invalidate_model_cache(st, m, invalidate_permanent) ==
    IF ~is_cache_enabled THEN st
    ELSE IF ~is_registered(m) THEN st
    ELSE LET s1 == CacheDelete(st, TableCacheKey(m, "table"))
             s2 == _delete_cache_keys_by_pattern(s1, QuerysetPattern(m, "queryset"))
         IN  IF invalidate_permanent
             THEN _delete_cache_keys_by_pattern(
                      CacheDelete(s2, TableCacheKey(m, "permanent")),
                      QuerysetPattern(m, "permanent"))
             ELSE s2

\* settings.DJANGO_CACHE_ME_WARMERS: "app_label.ModelName" -> dotted paths of
\* callables. The second entity has three; the middle one cannot be imported.
DJANGO_CACHE_ME_WARMERS(m) ==
    IF m = "m2"
    THEN <<"warmers.m2_filtered", "warmers.missing", "warmers.m2_permanent">>
    ELSE <<>>

\* func = import_string(path); qs = func(): <<qs>>, or <<>> when that raises
import_string(path) ==
    IF path = "warmers.m2_filtered" THEN <<Refine(get_queryset("m2"), "f1")>>
    ELSE IF path = "warmers.m2_permanent" THEN <<manager_permanent_cache("m2")>>
    ELSE <<>>

\* one try / except Exception block of the warm-up: list(qs) on the store
\* w.store, with the block's name and whether the except clause was entered
\* appended to w.log
Warmed(log, name, r) ==
    [store |-> r.store,
     log |-> Append(log, [warmer |-> name, failed |-> r.outcome = "raised"])]

WarmOne(w, name, func, tbl) ==
    Warmed(w.log, name, IF func = <<>> THEN Raised(w.store, <<>>, FALSE)
                        ELSE _cache_queryset(func[1], w.store, tbl))

\* (mutation) one try around the whole loop: the first failure ends the batch
RunWarmerList_StopsAtFailure(w, paths, tbl) ==
    LET run[i \in 0..Len(paths)] ==
            IF i = 0 THEN w
            ELSE IF run[i - 1].log # <<>> /\ run[i - 1].log[Len(run[i - 1].log)].failed
            THEN run[i - 1]
            ELSE WarmOne(run[i - 1], paths[i], import_string(paths[i]), tbl)
    IN  run[Len(paths)]

\* for path in warmer_paths: try ... except Exception. run[i] is the store and
\* the log after the i-th path
RunWarmerList(w, paths, tbl) ==
    LET run[i \in 0..Len(paths)] ==
            IF i = 0 THEN w
            ELSE WarmOne(run[i - 1], paths[i], import_string(paths[i]), tbl)
    IN  run[Len(paths)]

\* _run_warmers_for_model: the whole-table warm when cache_table is set, then
\* the custom warmers; [store, log]
RunWarmers(st, m, tbl) ==
    LET options == get_options(m)
        w0 == [store |-> st, log |-> <<>>]
        w1 == IF options # <<>> /\ options[1].cache_table
              THEN WarmOne(w0, "objects.all", <<get_queryset(m)>>, tbl)
              ELSE w0
    IN  RunWarmerList(w1, DJANGO_CACHE_ME_WARMERS(m), tbl)

\* _run_warmers_for_model: the store it leaves
_run_warmers_for_model(st, m, tbl) == RunWarmers(st, m, tbl).store

\* The part of the state an invalidation request works on:
\* w = [store, txn, queue, calls, warmed], calls being the log of what was
\* invoked and warmed the log of the warm-up blocks that ran
World == [store |-> store, txn |-> txn, queue |-> queue, calls |-> <<>>,
          warmed |-> <<>>]

\* an exception is on its way out of the operation w belongs to
Raising(w) == w.calls # <<>> /\ w.calls[Len(w.calls)].fn = "raise"

\* except Exception: the exception stops here
Catch(w) ==
    IF Raising(w)
    THEN [w EXCEPT !.calls = [w.calls EXCEPT ![Len(w.calls)] = Caught(@.model)]]
    ELSE w

\* a direct call of invalidate_model_cache, logged. Its first store call,
\* current_cache.delete(table_cache_key), is in no try: when it fails the
\* exception leaves the function with nothing deleted.
Invalidate(w, m, p) ==
    IF Raising(w) THEN w
    ELSE IF "cache_delete" \in faults /\ is_cache_enabled /\ is_registered(m)
    THEN [w EXCEPT !.calls = Append(Append(@, InvCall(m, p)), Escaped(m))]
    ELSE [w EXCEPT !.store = invalidate_model_cache(w.store, m, p),
                   !.calls = Append(@, InvCall(m, p))]

\* (mutation) the warmers run whatever the warm flag says
_sync_path_AlwaysWarms(w, m, p, warm, tbl) ==
    LET w1 == Invalidate(w, m, p) IN
    [w1 EXCEPT !.store = _run_warmers_for_model(w1.store, m, tbl),
               !.calls = Append(@, WarmCall(m))]

\* save_with_invalidation / delete_with_invalidation after the wrapped method
\* returned: invalidate_model_cache(self.__class__), once for each of the n
\* wrappers around the original method
RECURSIVE InvalidateTimes(_, _, _)
InvalidateTimes(w, m, n) ==
    IF n = 0 THEN w ELSE InvalidateTimes(Invalidate(w, m, FALSE), m, n - 1)

Wrapped(w, m) == InvalidateTimes(w, m, injected[m])

\* the world after _run_warmers_for_model(model_class) returned r = [store, log]
AfterWarmers(w, m, r) ==
    [w EXCEPT !.store = r.store,
              !.calls = Append(@, WarmCall(m)),
              !.warmed = @ \o r.log]

\* schedule_invalidation._sync_path
_sync_path(w, m, p, warm, tbl) ==
    LET w1 == Invalidate(w, m, p) IN
    IF warm /\ ~Raising(w1)
    THEN AfterWarmers(w1, m, RunWarmers(w1.store, m, tbl))
    ELSE w1

\* model_class.__name__
ClassName(m) == IF m = "m1" THEN "M1" ELSE "M2"

\* apps.get_model(app_label, model_name): <<model>>, or <<>> when the lookup raises
get_model(app_label, model_name) ==
    IF app_label = "app" /\ \E m \in Models : ClassName(m) = model_name
    THEN <<CHOOSE m \in Models : ClassName(m) = model_name>>
    ELSE <<>>

\* str(bool), to carry task arguments positionally whatever their type
PyStr(b) == IF b THEN "True" ELSE "False"
Truthy(s) == s \notin {"False", "", "None"}

\* tasks.invalidate_model_cache_task, given its bound arguments
invalidate_model_cache_task(w, app_label, model_name, invalidate_permanent, warm, tbl) ==
    LET model_class == get_model(app_label, model_name) IN
    IF model_class = <<>> THEN w    \* the lookup raised: caught and logged
    ELSE Catch(_sync_path(w, model_class[1], Truthy(invalidate_permanent),
                          Truthy(warm), tbl))

\* the shim of shared_task: delay(*args) is func(*args), and func's first
\* parameter is self, so the four positional arguments bind one place early
\* and warm keeps its default False
ShimDelay(w, args, tbl) ==
    invalidate_model_cache_task(w, args[2], args[3], args[4], "False", tbl)

\* (mutation) enqueue without its try/except: a failed hand-off escapes
enqueue_NoFallback(w, m, p, warm, brokerUp, tbl) ==
    LET args == <<"app", ClassName(m), PyStr(p), PyStr(warm)>>
        w1 == [w EXCEPT !.calls = Append(@, DelayCall(m, p, warm, celery /\ ~brokerUp))]
    IN  IF ~celery THEN ShimDelay(w1, args, tbl)
        ELSE IF brokerUp THEN [w1 EXCEPT !.queue = Append(@, args)]
        ELSE [w1 EXCEPT !.calls = Append(@, Escaped(m))]

\* schedule_invalidation.enqueue; brokerUp says whether .delay succeeds
enqueue(w, m, p, warm, brokerUp, tbl) ==
    LET args == <<"app", ClassName(m), PyStr(p), PyStr(warm)>>
        w1 == [w EXCEPT !.calls = Append(@, DelayCall(m, p, warm, celery /\ ~brokerUp))]
    IN  IF ~celery THEN ShimDelay(w1, args, tbl)
        ELSE IF brokerUp THEN [w1 EXCEPT !.queue = Append(@, args)]
        ELSE _sync_path(w1, m, p, warm, tbl)

\* (mutation) the hand-off is made at once, whatever the transaction state
OnCommitOrEnqueue_Immediate(w, m, p, warm, brokerUp, tbl) ==
    enqueue(w, m, p, warm, brokerUp, tbl)

\* transaction.on_commit(func) and the except branch around it
OnCommitOrEnqueue(w, m, p, warm, brokerUp, tbl) ==
    IF w.txn = <<>> THEN enqueue(w, m, p, warm, brokerUp, tbl)
    ELSE IF w.txn[Len(w.txn)].kind = "atomic"
    THEN [w EXCEPT !.txn[Len(w.txn)].cbs =
                       Append(@, [model |-> m, permanent |-> p, warm |-> warm])]
    ELSE enqueue(w, m, p, warm, brokerUp, tbl)  \* on_commit raised

\* schedule_invalidation; warmArg is <<>> for None, <<b>> for a boolean
schedule_invalidation(w, m, p, warmArg, brokerUp, tbl) ==
    IF ~is_cache_enabled THEN w
    ELSE LET warm == IF warmArg = <<>> THEN warmDefault ELSE warmArg[1] IN
         IF ~asyncEnabled THEN _sync_path(w, m, p, warm, tbl)
         ELSE IF onCommit THEN OnCommitOrEnqueue(w, m, p, warm, brokerUp, tbl)
         ELSE enqueue(w, m, p, warm, brokerUp, tbl)

\* auto_invalidate_cache, as the post_save / post_delete receiver of sender m
auto_invalidate_cache(w, m, brokerUp, tbl) ==
    IF m \in connected THEN schedule_invalidation(w, m, FALSE, <<>>, brokerUp, tbl)
    ELSE w

\* the for loop of invalidate_all_caches over registered_models[i..]: every
\* schedule_invalidation call sits in a try / except Exception
RECURSIVE ScheduleEach(_, _, _, _, _, _)
ScheduleEach(w, models, i, p, brokerUp, tbl) ==
    IF i > Len(models) THEN w
    ELSE LET w0 == [w EXCEPT !.calls = Append(@, SchedCall(models[i], p))]
             w1 == Catch(schedule_invalidation(w0, models[i], p, <<>>, brokerUp, tbl))
         IN  ScheduleEach(w1, models, i + 1, p, brokerUp, tbl)

\* the same loop without the try: the first exception ends it
RECURSIVE ScheduleEachUnguarded(_, _, _, _, _, _)
ScheduleEachUnguarded(w, models, i, p, brokerUp, tbl) ==
    IF i > Len(models) \/ Raising(w) THEN w
    ELSE LET w0 == [w EXCEPT !.calls = Append(@, SchedCall(models[i], p))]
             w1 == schedule_invalidation(w0, models[i], p, <<>>, brokerUp, tbl)
         IN  ScheduleEachUnguarded(w1, models, i + 1, p, brokerUp, tbl)

\* (mutation) the sweep does not catch what schedule_invalidation raises
invalidate_all_caches_Unguarded(w, registered_models, p, brokerUp, tbl) ==
    IF ~is_cache_enabled THEN w
    ELSE IF registered_models = <<>> THEN w
    ELSE ScheduleEachUnguarded(w, registered_models, 1, p, brokerUp, tbl)

\* invalidate_all_caches(invalidate_permanent = p); registered_models is
\* get_registered_models(), the registry's keys in insertion order
invalidate_all_caches(w, registered_models, p, brokerUp, tbl) ==
    IF ~is_cache_enabled THEN w
    ELSE IF registered_models = <<>> THEN w
    ELSE ScheduleEach(w, registered_models, 1, p, brokerUp, tbl)

\* the orders get_registered_models() can have: the registry remembers the
\* order of registration, the model only the set, so every order is tried
RegisteredOrders ==
    { s \in [1..Cardinality(DOMAIN registry) -> DOMAIN registry] :
        \A i, j \in DOMAIN s : s[i] = s[j] => i = j }

\* ------------------------------------------------------------------ history
NoEval == [result |-> <<>>, outcome |-> "", executed |-> FALSE, key |-> <<>>]

\* what an operation did: its name, its entity and queryset, how the query was
\* answered, what the engine was asked to do, and whether a transaction was open
\* (warmed: the warm-up blocks a schedule_invalidation ran; options: the
\* options a register call was given)
Record(op, m, qs, r, calls, prev) ==
    [op |-> op, model |-> m, qs |-> qs, outcome |-> r.outcome, result |-> r.result,
     executed |-> r.executed, key |-> r.key, calls |-> calls, prev |-> prev,
     warmed |-> <<>>, options |-> <<>>]

\* prev: how the operation just before answered, when both evaluate the same queryset
Did(op, m, qs, r, calls) ==
    Record(op, m, qs, r, calls,
           IF op = "evaluate" /\ last.op = "evaluate" /\ last.qs = qs
           THEN last.outcome ELSE "")

\* ------------------------------------------------------------------ inputs
OptionChoices ==
    [cache_table : BOOLEAN, cache_queryset : BOOLEAN, timeout : {<<>>}]

\* the policy of the scenarios that are about writes and scheduling
SchedOptions == [cache_table : {TRUE}, cache_queryset : {TRUE}, timeout : {<<>>}]

\* ------------------------------------------------------------------ rows
InsertRow(rows, pk) ==
    IF \E i \in 1..Len(rows) : rows[i] = pk THEN rows
    ELSE SelectSeq(rows, LAMBDA r : r < pk) \o <<pk>> \o SelectSeq(rows, LAMBDA r : r > pk)

RECURSIVE InsertRows(_, _)
InsertRows(rows, pks) ==
    IF pks = {} THEN rows
    ELSE LET pk == CHOOSE x \in pks : TRUE
         IN  InsertRows(InsertRow(rows, pk), pks \ {pk})

RemoveRow(rows, pk) == SelectSeq(rows, LAMBDA r : r # pk)

HasRow(rows, pk) == \E i \in 1..Len(rows) : rows[i] = pk

\* the rows of the table that the query does not select
Unselected(tbl, qs) ==
    IF qs.q = "all" THEN <<>>
    ELSE SelectSeq(tbl[qs.model], LAMBDA r : r # 1)

\* what a worker or another connection sees: the committed rows
Committed == IF txn = <<>> THEN db ELSE txn[1].snapshot

\* the model keeps every queue within its bound
RECURSIVE Pending(_)
Pending(frames) ==
    IF frames = <<>> THEN 0 ELSE Len(Head(frames).cbs) + Pending(Tail(frames))

Bounded(w) == Len(w.queue) + Pending(w.txn) <= MaxQueue

\* ------------------------------------------------------------------ processes
\* the processes that evaluate querysets step by step
Procs == {"p1", "p2"}

\* a process that is not inside _cache_queryset
Idle == [pc |-> "idle", qs |-> NoQuerySet, key |-> <<>>, result |-> <<>>,
         stored |-> FALSE, overlap |-> FALSE]

\* between the cache.get that missed and the cache.set (or the early return)
InFlight(p) == readers[p].pc \in {"missed", "fetched"}

\* ------------------------------------------------------------------ initial state
InitCommon ==
    /\ readers = [p \in Procs |-> Idle]
    /\ injected = [m \in Models |-> 0]
    /\ enabled = TRUE
    /\ faults = {}
    /\ registry = [m \in {} |-> [cache_table |-> FALSE, cache_queryset |-> TRUE,
                                 timeout |-> <<>>]]
    /\ connected = {}
    /\ db = [m \in Models |-> <<>>]
    /\ store = EmptyStore
    /\ txn = <<>>
    /\ queue = <<>>
    /\ last = Record("init", "", NoQuerySet, NoEval, <<>>, "")

\* the documented defaults: synchronous invalidation, no warming
Init ==
    /\ InitCommon
    /\ backend \in {"delete_pattern", "plain"}
    /\ asyncEnabled = FALSE
    /\ onCommit = TRUE
    /\ warmDefault = FALSE
    /\ celery = FALSE

\* ------------------------------------------------------------------ actions
\* (mutation) no marker is consulted: every registration wraps once more
_inject_cache_invalidation_Again(m) == [injected EXCEPT ![m] = @ + 1]

\* _inject_cache_invalidation: it returns at once when the class carries the
\* marker _cache_me_invalidation_injected, otherwise it wraps save and delete
\* and sets the marker
_inject_cache_invalidation(m) ==
    IF injected[m] > 0 THEN injected ELSE [injected EXCEPT ![m] = @ + 1]

\* (mutation) registration does not consult the global switch
register_WhenDisabled(m, options) ==
    /\ registry' = [x \in DOMAIN registry \cup {m} |->
                       IF x = m THEN options ELSE registry[x]]
    /\ injected' = _inject_cache_invalidation(m)
    /\ last' = [Did("register", m, NoQuerySet, NoEval, <<>>) EXCEPT !.options = <<options>>]
    /\ UNCHANGED <<settingsVars, readers, connected, db, store, txn, queue>>

\* CacheMeRegistry.register: the options replace what the registry held for
\* the model, then _patch_model_manager injects the invalidation
register(m, options) ==
    /\ registry' = IF ~is_cache_enabled THEN registry
                   ELSE [x \in DOMAIN registry \cup {m} |->
                            IF x = m THEN options ELSE registry[x]]
    /\ injected' = IF ~is_cache_enabled THEN injected ELSE _inject_cache_invalidation(m)
    /\ last' = [Did("register", m, NoQuerySet, NoEval, <<>>) EXCEPT !.options = <<options>>]
    /\ UNCHANGED <<settingsVars, readers, connected, db, store, txn, queue>>

\* setup_cache_invalidation: enable_auto_invalidation for every registered model
setup_cache_invalidation ==
    /\ connected' = connected \cup DOMAIN registry
    /\ last' = Did("setup_cache_invalidation", "", NoQuerySet, NoEval, <<>>)
    /\ UNCHANGED <<settingsVars, readers, injected, registry, db, store, txn, queue>>

\* override_settings(DJANGO_CACHE_ME_ON=...)
SetEnabled(b) ==
    /\ enabled' = b
    /\ last' = Did("settings", "", NoQuerySet, NoEval, <<>>)
    /\ UNCHANGED <<asyncEnabled, onCommit, warmDefault, celery, backend, faults, readers,
                   injected,
                   registry, connected, db, store, txn, queue>>

\* list(qs): CachedQuerySet.__iter__ / _fetch_all
Evaluate(qs) ==
    LET r == _cache_queryset(qs, store, db) IN
    /\ store' = r.store
    /\ last' = Did("evaluate", qs.model, qs, r, <<>>)
    /\ UNCHANGED <<settingsVars, readers, injected, registry, connected, db, txn, queue>>

\* what count() / exists() answer for the rows of the query: len(...), len(...) > 0
Measure(op, rows) ==
    IF op = "count" THEN Len(rows) ELSE IF Len(rows) > 0 THEN 1 ELSE 0

\* qs.count() / qs.exists(): len of the evaluation; when the evaluation raises,
\* whatever the cause, the except falls back to QuerySet.count() / exists(),
\* a query of its own against the backing store
Counted(qs, op) ==
    LET r == _cache_queryset(qs, store, db) IN
    /\ store' = r.store
    /\ last' = Did(op, qs.model, qs,
                   IF r.outcome # "raised" THEN [r EXCEPT !.result = <<Measure(op, @)>>]
                   ELSE IF "db_count" \in faults THEN r
                   ELSE [r EXCEPT !.result = <<Measure(op, Execute(db, qs))>>,
                                  !.outcome = "fallback", !.executed = TRUE],
                   <<>>)
    /\ UNCHANGED <<settingsVars, readers, injected, registry, connected, db, txn, queue>>

Count(qs) == Counted(qs, "count")
Exists(qs) == Counted(qs, "exists")

\* the operations that build a queryset from another; last.qs is the
\* queryset in the application's hands
QueryOps == {"get_queryset", "_clone", "no_cache", "permanent_cache", "filter"}

\* Model.objects / Model.objects.permanent_cache: a new queryset
StartQuery(qs) ==
    /\ last' = Did("get_queryset", qs.model, qs, NoEval, <<>>)
    /\ UNCHANGED <<settingsVars, readers, injected, registry, connected, db, store, txn, queue>>

\* qs._clone(), qs.no_cache(), qs.permanent_cache(), qs.filter(...) / qs.all()
\* on the queryset in hand
Chain(op, q) ==
    /\ last.op \in QueryOps
    /\ last' = Did(op, last.model,
                   CASE op = "_clone" -> Clone(last.qs)
                     [] op = "no_cache" -> no_cache(last.qs)
                     [] op = "permanent_cache" -> permanent_cache(last.qs)
                     [] op = "filter" -> Refine(last.qs, q),
                   NoEval, <<>>)
    /\ UNCHANGED <<settingsVars, readers, injected, registry, connected, db, store, txn, queue>>

\* list(qs) of the queryset in hand
EvaluateInHand ==
    /\ last.op \in QueryOps
    /\ Evaluate(last.qs)

\* qs._generate_cache_key(query_type) in some process, on a queryset whose
\* query object is query. The history keeps the object's id (result), whether
\* it compiled (executed), the shape asked for (outcome) and the key.
DeriveKey(qs, query_type, query) ==
    /\ last' = Record("_generate_cache_key", qs.model, qs,
                      [result |-> <<query.id>>, outcome |-> query_type,
                       executed |-> query.compiles,
                       key |-> <<GenerateCacheKey(qs, query_type, query)>>],
                      <<>>,
                      IF last.op = "_generate_cache_key" THEN "derived" ELSE "")
    /\ UNCHANGED <<settingsVars, readers, injected, registry, connected, db, store, txn, queue>>

\* list(qs) in process p, first step: _cache_queryset up to cache.get, on the
\* path where policy gives a key and cache.get returns None. A process that
\* misses while another is in flight on the same key overlaps with it.
CacheLookup(p, qs) ==
    LET r == _cache_queryset(qs, store, db) IN
    /\ ~InFlight(p)
    /\ r.outcome \in {"miss", "empty"}
    /\ readers' = [x \in Procs |->
                      IF x = p
                      THEN [pc |-> "missed", qs |-> qs, key |-> r.key, result |-> <<>>,
                            stored |-> FALSE,
                            overlap |-> \E o \in Procs \ {p} :
                                           InFlight(o) /\ readers[o].key = r.key]
                      ELSE IF InFlight(x) /\ readers[x].key = r.key
                      THEN [readers[x] EXCEPT !.overlap = TRUE]
                      ELSE readers[x]]
    /\ last' = Did("cache.get", qs.model, qs,
                   [NoEval EXCEPT !.outcome = "miss", !.key = r.key], <<>>)
    /\ UNCHANGED <<settingsVars, injected, registry, connected, db, store, txn, queue>>

\* second step: result = list(super().iterator())
FetchRows(p) ==
    /\ readers[p].pc = "missed"
    /\ readers' = [readers EXCEPT ![p].pc = "fetched",
                                  ![p].result = Execute(db, readers[p].qs)]
    /\ last' = Did("iterator", readers[p].qs.model, readers[p].qs,
                   [NoEval EXCEPT !.result = Execute(db, readers[p].qs),
                                  !.executed = TRUE, !.key = readers[p].key], <<>>)
    /\ UNCHANGED <<settingsVars, injected, registry, connected, db, store, txn, queue>>

\* third step: the regular path returns an empty result unstored, otherwise
\* cache.set(cache_key, result, timeout)
StoreResult(p) ==
    LET rd == readers[p]
        skip == rd.qs.cls # "PermanentCachedQuerySet" /\ rd.result = <<>>
    IN  /\ rd.pc = "fetched"
        /\ store' = IF skip THEN store
                    ELSE CacheSet(store, rd.key[1], rd.result, _get_timeout(rd.qs))
        /\ readers' = [readers EXCEPT ![p].pc = "done", ![p].stored = ~skip]
        /\ last' = Did("evaluate", rd.qs.model, rd.qs,
                       [result |-> rd.result,
                        outcome |-> IF skip THEN "empty" ELSE "miss",
                        executed |-> TRUE, key |-> rd.key], <<>>)
        /\ UNCHANGED <<settingsVars, injected, registry, connected, db, txn, queue>>

\* the cache server or the database goes down or comes back
SetFaults(f) ==
    /\ faults' = f
    /\ last' = Did("faults", "", NoQuerySet, NoEval, <<>>)
    /\ UNCHANGED <<enabled, asyncEnabled, onCommit, warmDefault, celery, backend, readers,
                   injected,
                   registry, connected, db, store, txn, queue>>

\* the store drops an entry whose timeout has passed
Expire(k) ==
    /\ k \in DOMAIN store
    /\ store' = CacheDelete(store, k)
    /\ last' = Did("expire", "", NoQuerySet, NoEval, <<>>)
    /\ UNCHANGED <<settingsVars, readers, injected, registry, connected, db, txn, queue>>

\* the state an operation leaves, from the world w it produced
Leaves(w) ==
    /\ Bounded(w)
    /\ store' = w.store
    /\ txn' = w.txn
    /\ queue' = w.queue

\* invalidate_model_cache(model, invalidate_permanent), called directly
InvalidateModelCache(m, p) ==
    LET w == Invalidate(World, m, p) IN
    /\ Leaves(w)
    /\ last' = Did("invalidate_model_cache", m, NoQuerySet,
                   [NoEval EXCEPT !.result =
                       <<Cardinality(DOMAIN store \ DOMAIN w.store)>>],  \* keys deleted
                   w.calls)
    /\ UNCHANGED <<settingsVars, readers, injected, registry, connected, db>>

\* a manual invalidation through the method op, with invalidate_all = b;
\* last.outcome records b, last.result the number of entries removed
ManualInvalidation(op, m, qs, b) ==
    LET w == Invalidate(World, m, b) IN
    /\ Leaves(w)
    /\ last' = Did(op, m, qs,
                   [NoEval EXCEPT !.outcome = PyStr(b),
                                  !.result = <<Cardinality(DOMAIN store \ DOMAIN w.store)>>],
                   w.calls)
    /\ UNCHANGED <<settingsVars, readers, injected, registry, connected, db>>

\* (mutation) the queryset method goes through the _invalidate_cache helper,
\* which passes no flag
QuerySetInvalidateCache_Regular(qs, b) ==
    LET w == Invalidate(World, qs.model, FALSE) IN
    /\ Leaves(w)
    /\ last' = Did("queryset.invalidate_cache", qs.model, qs,
                   [NoEval EXCEPT !.outcome = PyStr(b),
                                  !.result = <<Cardinality(DOMAIN store \ DOMAIN w.store)>>],
                   w.calls)
    /\ UNCHANGED <<settingsVars, readers, injected, registry, connected, db>>

\* CachedQuerySet.invalidate_cache(invalidate_all = b)
QuerySetInvalidateCache(qs, b) ==
    ManualInvalidation("queryset.invalidate_cache", qs.model, qs, b)

\* CachedManager.invalidate_cache(invalidate_all = b)
ManagerInvalidateCache(m, b) ==
    ManualInvalidation("manager.invalidate_cache", m, NoQuerySet, b)

\* Model.invalidate_cache(invalidate_all = b): the classmethod that
\* _inject_cache_invalidation adds when the model is registered
ModelInvalidateCache(m, b) ==
    /\ is_registered(m)
    /\ ManualInvalidation("model.invalidate_cache", m, NoQuerySet, b)

\* the flags a schedule_invalidation call was made with, as the history keeps
\* them: invalidate_permanent, and warm after the None default is resolved
Asked(p, warm) ==
    IF p THEN (IF warm THEN "permanent+warm" ELSE "permanent")
    ELSE (IF warm THEN "warm" ELSE "regular")

\* schedule_invalidation(model, invalidate_permanent, warm)
ScheduleInvalidation(m, p, warmArg, brokerUp) ==
    LET w == schedule_invalidation(World, m, p, warmArg, brokerUp, db) IN
    /\ Leaves(w)
    /\ last' = [Did("schedule_invalidation", m, NoQuerySet,
                    [NoEval EXCEPT !.outcome =
                        Asked(p, IF warmArg = <<>> THEN warmDefault ELSE warmArg[1])],
                    w.calls)
                    EXCEPT !.warmed = w.warmed]
    /\ UNCHANGED <<settingsVars, readers, injected, registry, connected, db>>

\* invalidate_all_caches(invalidate_permanent = p); last.outcome records p
InvalidateAllCaches(registered_models, p, brokerUp) ==
    LET w == invalidate_all_caches(World, registered_models, p, brokerUp, db) IN
    /\ Leaves(w)
    /\ last' = Did("invalidate_all_caches", "", NoQuerySet,
                   [NoEval EXCEPT !.outcome = PyStr(p)], w.calls)
    /\ UNCHANGED <<settingsVars, readers, injected, registry, connected, db>>

\* a write of the rows pks: the table it leaves, the invalidation w it
\* triggered, and how the call ended for its caller
WroteAs(op, m, qs, pks, rows, w, outcome) ==
    /\ Leaves(w)
    /\ db' = [db EXCEPT ![m] = rows]
    /\ last' = Did(op, m, qs, [NoEval EXCEPT !.result = pks, !.outcome = outcome],
                   w.calls)
    /\ UNCHANGED <<settingsVars, readers, injected, registry, connected>>

\* ... ending "raised" when an exception of the invalidation reached the caller
Wrote(op, m, qs, pks, rows, w) ==
    WroteAs(op, m, qs, pks, rows, w,
            IF Raising(w) THEN "raised"
            ELSE IF Len(rows) > Len(db[m]) THEN "created"
            ELSE IF Len(rows) < Len(db[m]) THEN "deleted"
            ELSE "updated")

\* the underlying write raised before it changed anything: outcome "raised"
\* when the exception reaches the caller, "none" when the method swallowed it
Failed(op, m, qs, outcome) ==
    /\ last' = Did(op, m, qs, [NoEval EXCEPT !.outcome = outcome], <<>>)
    /\ UNCHANGED <<settingsVars, readers, injected, registry, connected, db, store, txn, queue>>

\* (mutation) the wrapper invalidates first and writes afterwards
Save_InvalidatesFirst(m, pk, brokerUp) ==
    LET rows == InsertRow(db[m], pk)
        tbl == [db EXCEPT ![m] = rows]
        w1 == IF is_registered(m) THEN Invalidate(World, m, FALSE) ELSE World
        w2 == auto_invalidate_cache(w1, m, brokerUp, tbl)
    IN  IF "db_write" \in faults
        THEN WroteAs("save", m, NoQuerySet, <<>>, db[m], w1, "raised")
        ELSE Wrote("save", m, NoQuerySet, <<pk>>, rows, w2)

\* instance.save(): save_with_invalidation around Model.save (which sends post_save)
Save(m, pk, brokerUp) ==
    LET rows == InsertRow(db[m], pk)
        tbl == [db EXCEPT ![m] = rows]
        w1 == auto_invalidate_cache(World, m, brokerUp, tbl)
        w2 == Wrapped(w1, m)
    IN  IF "db_write" \in faults THEN Failed("save", m, NoQuerySet, "raised")
        ELSE Wrote("save", m, NoQuerySet, <<pk>>, rows, w2)

\* instance.delete(): delete_with_invalidation around Model.delete (post_delete)
Delete(m, pk, brokerUp) ==
    LET rows == RemoveRow(db[m], pk)
        tbl == [db EXCEPT ![m] = rows]
        w1 == auto_invalidate_cache(World, m, brokerUp, tbl)
        w2 == Wrapped(w1, m)
    IN  /\ HasRow(db[m], pk)
        /\ IF "db_write" \in faults THEN Failed("delete", m, NoQuerySet, "raised")
           ELSE IF Raising(w1)   \* a receiver raised inside the delete's transaction
           THEN Wrote("delete", m, NoQuerySet, <<pk>>, db[m], w1)
           ELSE Wrote("delete", m, NoQuerySet, <<pk>>, rows, w2)

\* CachedQuerySet.update / PermanentCachedQuerySet.update
\* (column values are not part of a row here: the table keeps its rows)
Update(qs) ==
    LET m == qs.model
        w == IF qs.cls = "PermanentCachedQuerySet" THEN World
             ELSE Invalidate(World, m, FALSE)
    IN  IF "db_write" \in faults THEN Failed("update", m, qs, "raised")
        ELSE Wrote("update", m, qs, Execute(db, qs), db[m], w)

RECURSIVE SignalEach(_, _, _, _, _)
\* post_delete, sent once for each of the n deleted instances
SignalEach(w, m, n, brokerUp, tbl) ==
    IF n = 0 \/ Raising(w) THEN w
    ELSE SignalEach(auto_invalidate_cache(w, m, brokerUp, tbl), m, n - 1, brokerUp, tbl)

\* CachedQuerySet.delete / PermanentCachedQuerySet.delete
QuerySetDelete(qs, brokerUp) ==
    LET m == qs.model
        rows == Unselected(db, qs)
        tbl == [db EXCEPT ![m] = rows]
        w1 == SignalEach(World, m, Len(Execute(db, qs)), brokerUp, tbl)
        w2 == IF qs.cls = "PermanentCachedQuerySet" THEN w1
              ELSE Invalidate(w1, m, FALSE)
        swallows == qs.cls # "PermanentCachedQuerySet"   \* except Exception: pass
    IN  IF "db_write" \in faults
        THEN Failed("queryset_delete", m, qs, IF swallows THEN "none" ELSE "raised")
        ELSE IF Raising(w1)   \* a receiver raised inside the delete's transaction
        THEN WroteAs("queryset_delete", m, qs, Execute(db, qs), db[m],
                     IF swallows THEN Catch(w1) ELSE w1,
                     IF swallows THEN "none" ELSE "raised")
        ELSE IF Raising(w2)
        THEN WroteAs("queryset_delete", m, qs, Execute(db, qs), rows, Catch(w2), "none")
        ELSE Wrote("queryset_delete", m, qs, Execute(db, qs), rows, w2)

\* CachedManager.bulk_create
bulk_create(m, pks) ==
    /\ \A pk \in pks : ~HasRow(db[m], pk)
    /\ IF "db_write" \in faults THEN Failed("bulk_create", m, NoQuerySet, "raised")
       ELSE Wrote("bulk_create", m, NoQuerySet, InsertRows(<<>>, pks),
                  InsertRows(db[m], pks), Invalidate(World, m, FALSE))

\* CachedManager.bulk_update
bulk_update(m) ==
    IF "db_write" \in faults THEN Failed("bulk_update", m, NoQuerySet, "raised")
    ELSE Wrote("bulk_update", m, NoQuerySet, db[m], db[m], Invalidate(World, m, FALSE))

\* CachedManager.bulk_delete: it calls super().bulk_update, so no row is removed
bulk_delete(m) ==
    IF "db_write" \in faults THEN Failed("bulk_delete", m, NoQuerySet, "raised")
    ELSE Wrote("bulk_delete", m, NoQuerySet, db[m], db[m], Invalidate(World, m, FALSE))

\* CacheMeInvalidationMixin.save on a model that inherits the mixin: when the
\* model is registered as well, the injected wrapper runs around the mixin's save
MixinSave(m, pk, brokerUp) ==
    LET rows == InsertRow(db[m], pk)
        tbl == [db EXCEPT ![m] = rows]
        w1 == auto_invalidate_cache(World, m, brokerUp, tbl)
        w2 == Invalidate(w1, m, FALSE)
        w3 == Wrapped(w2, m)
    IN  IF "db_write" \in faults THEN Failed("mixin_save", m, NoQuerySet, "raised")
        ELSE Wrote("mixin_save", m, NoQuerySet, <<pk>>, rows, w3)

\* CacheMeInvalidationMixin.delete
MixinDelete(m, pk, brokerUp) ==
    LET rows == RemoveRow(db[m], pk)
        tbl == [db EXCEPT ![m] = rows]
        w1 == auto_invalidate_cache(World, m, brokerUp, tbl)
        w2 == Invalidate(w1, m, FALSE)
        w3 == Wrapped(w2, m)
    IN  /\ HasRow(db[m], pk)
        /\ IF "db_write" \in faults THEN Failed("mixin_delete", m, NoQuerySet, "raised")
           ELSE IF Raising(w1)
           THEN Wrote("mixin_delete", m, NoQuerySet, <<pk>>, db[m], w1)
           ELSE Wrote("mixin_delete", m, NoQuerySet, <<pk>>, rows, w3)

\* ------------------------------------------------------------------ transactions
Frame(kind) == [kind |-> kind, snapshot |-> db, cbs |-> <<>>]
Top == txn[Len(txn)]
Outer == SubSeq(txn, 1, Len(txn) - 1)
InAtomic == txn # <<>> /\ Top.kind = "atomic"

\* with transaction.atomic(): enter
BeginAtomic ==
    /\ Len(txn) < MaxDepth
    /\ txn = <<>> \/ InAtomic
    /\ txn' = Append(txn, Frame("atomic"))
    /\ last' = Did("begin", "", NoQuerySet, NoEval, <<>>)
    /\ UNCHANGED <<settingsVars, readers, injected, registry, connected, db, store, queue>>

RECURSIVE RunCommitHooks(_, _, _, _)
\* run_and_clear_commit_hooks: the registered callbacks, in order
RunCommitHooks(w, cbs, brokerUp, tbl) ==
    IF cbs = <<>> \/ Raising(w) THEN w
    ELSE RunCommitHooks(
             enqueue(w, Head(cbs).model, Head(cbs).permanent, Head(cbs).warm,
                     brokerUp, tbl),
             Tail(cbs), brokerUp, tbl)

\* with transaction.atomic(): leave normally. An inner block hands its
\* callbacks to the enclosing one; the outermost commits and runs them.
CommitAtomic(brokerUp) ==
    /\ InAtomic
    /\ LET w == IF Len(txn) = 1
                THEN RunCommitHooks([World EXCEPT !.txn = <<>>], Top.cbs, brokerUp, db)
                ELSE [World EXCEPT !.txn =
                         [Outer EXCEPT ![Len(Outer)].cbs = @ \o Top.cbs]]
       IN  /\ store' = w.store
           /\ txn' = w.txn
           /\ queue' = w.queue
           /\ last' = Did("commit", "", NoQuerySet, NoEval, w.calls)
    /\ UNCHANGED <<settingsVars, readers, injected, registry, connected, db>>

\* with transaction.atomic(): leave by an exception. The block's writes and
\* the callbacks registered in it are discarded.
RollbackAtomic ==
    /\ InAtomic
    /\ txn' = Outer
    /\ db' = Top.snapshot
    /\ last' = Did("rollback", "", NoQuerySet, NoEval, <<>>)
    /\ UNCHANGED <<settingsVars, readers, injected, registry, connected, store, queue>>

\* transaction.set_autocommit(False): a transaction managed by hand, in which
\* transaction.on_commit raises TransactionManagementError
BeginManual ==
    /\ txn = <<>>
    /\ txn' = <<Frame("manual")>>
    /\ last' = Did("begin", "", NoQuerySet, NoEval, <<>>)
    /\ UNCHANGED <<settingsVars, readers, injected, registry, connected, db, store, queue>>

\* transaction.commit() / transaction.rollback() of a transaction managed by hand
EndManual(commit) ==
    /\ txn # <<>> /\ Top.kind = "manual"
    /\ txn' = <<>>
    /\ db' = IF commit THEN db ELSE Top.snapshot
    /\ last' = Did(IF commit THEN "commit" ELSE "rollback", "", NoQuerySet, NoEval, <<>>)
    /\ UNCHANGED <<settingsVars, readers, injected, registry, connected, store, queue>>

\* ------------------------------------------------------------------ the task runner
\* a worker runs the oldest queued invalidate_model_cache_task
RunTask ==
    /\ queue # <<>>
    /\ LET args == Head(queue)
           w == invalidate_model_cache_task([World EXCEPT !.queue = Tail(queue)],
                    args[1], args[2], args[3], args[4], Committed)
       IN  /\ store' = w.store
           /\ queue' = w.queue
           /\ last' = Did("task", "", NoQuerySet, NoEval, w.calls)
    /\ UNCHANGED <<settingsVars, readers, injected, registry, connected, db, txn>>

\* ------------------------------------------------------------------ specifications
\* Queries, writes and direct invalidation of one entity,
\* registered once at startup, under the default settings
Next ==
    \/ \E m \in Focus, o \in OptionChoices : ~is_registered(m) /\ register(m, o)
    \/ \E m \in Focus : \E qs \in QuerySetsOf(m) : Evaluate(qs)
    \/ \E k \in DOMAIN store : Expire(k)
    \/ \E m \in Focus, p \in BOOLEAN : InvalidateModelCache(m, p)
    \/ \E m \in Focus, pk \in Pks : Save(m, pk, TRUE)
    \/ \E m \in Focus, pk \in Pks : Delete(m, pk, TRUE)

Spec == Init /\ [][Next]_vars

\* The same operations with DJANGO_CACHE_ME_ON switched on and off at any time
InitToggle ==
    /\ InitCommon
    /\ backend = "delete_pattern"
    /\ asyncEnabled = FALSE
    /\ onCommit = TRUE
    /\ warmDefault = FALSE
    /\ celery = FALSE

NextToggle ==
    \/ \E m \in Focus, o \in SchedOptions : ~is_registered(m) /\ register(m, o)
    \/ \E b \in BOOLEAN : SetEnabled(b)
    \/ \E m \in Focus : \E qs \in QuerySetsOf(m) : Evaluate(qs)
    \/ \E k \in DOMAIN store : Expire(k)
    \/ \E m \in Focus, p \in BOOLEAN : InvalidateModelCache(m, p)
    \/ \E m \in Focus, pk \in Pks : Save(m, pk, TRUE)
    \/ \E m \in Focus, pk \in Pks : Delete(m, pk, TRUE)

SpecToggle == InitToggle /\ [][NextToggle]_vars

\* Every write path of a registered entity, with the signal receivers, under
\* the default (synchronous) settings
NextWrites ==
    \/ \E m \in Focus, o \in SchedOptions : ~is_registered(m) /\ register(m, o)
    \/ setup_cache_invalidation
    \/ \E m \in Focus : \E q \in QueryShapes : Evaluate(Refine(get_queryset(m), q))
    \/ \E m \in Focus, pk \in Pks : Save(m, pk, TRUE)
    \/ \E m \in Focus, pk \in Pks : Delete(m, pk, TRUE)
    \/ \E m \in Focus : \E qs \in QuerySetsOf(m) : Update(qs)
    \/ \E m \in Focus : \E qs \in QuerySetsOf(m) : QuerySetDelete(qs, TRUE)
    \/ \E m \in Focus, pks \in SUBSET Pks \ {{}} : bulk_create(m, pks)
    \/ \E m \in Focus : bulk_update(m)
    \/ \E m \in Focus : bulk_delete(m)

SpecWrites == Init /\ [][NextWrites]_vars

\* ------------------------------------------------------------------ warming
\* Synchronous invalidation with and without warming, over a table whose
\* rows come and go
NextWarm ==
    \/ \E m \in Focus, o \in SchedOptions : ~is_registered(m) /\ register(m, o)
    \/ \E m \in Focus : \E q \in QueryShapes : Evaluate(Refine(get_queryset(m), q))
    \/ \E m \in Focus, pk \in Pks : Save(m, pk, TRUE)
    \/ \E m \in Focus, pk \in Pks : Delete(m, pk, TRUE)
    \/ \E m \in Focus, p \in BOOLEAN, warmArg \in {<<>>, <<TRUE>>} :
          ScheduleInvalidation(m, p, warmArg, TRUE)

SpecWarm == InitToggle /\ [][NextWarm]_vars

\* ------------------------------------------------------------------ warmers
\* The entity with custom warmers: synchronous invalidation with warming
\* while calls on the cache store or on the database fail
WarmFaultSets == {{}, {"cache_get"}, {"cache_set"}, {"db_read"}}

NextWarmers ==
    \/ \E m \in Models \ Focus :
          \E o \in [cache_table : BOOLEAN, cache_queryset : {TRUE}, timeout : {<<>>}] :
             ~is_registered(m) /\ register(m, o)
    \/ \E f \in WarmFaultSets : SetFaults(f)
    \/ \E m \in Models \ Focus, pk \in Pks : Save(m, pk, TRUE)
    \/ \E m \in Models \ Focus : Delete(m, 1, TRUE)
    \/ \E m \in Models \ Focus, p \in BOOLEAN, warmArg \in {<<>>, <<TRUE>>} :
          ScheduleInvalidation(m, p, warmArg, TRUE)

SpecWarmers == InitToggle /\ [][NextWarmers]_vars

\* ------------------------------------------------------------------ keys
\* Key derivation by any queryset of either entity, over query objects of
\* different identity, compiling or not, while settings, registry, table and
\* store change around it.
NextKeys ==
    \/ \E m \in Focus, o \in SchedOptions : ~is_registered(m) /\ register(m, o)
    \/ \E b \in BOOLEAN : SetEnabled(b)
    \/ \E m \in Focus : Save(m, 1, TRUE)
    \/ \E m \in Focus : Evaluate(get_queryset(m))
    \/ \E m \in Models : \E qs \in QuerySetsOf(m) :
          \E query_type \in {"table", "queryset"}, query \in QueryObjects :
             DeriveKey(qs, query_type, query)

SpecKeys == InitToggle /\ [][NextKeys]_vars

\* ------------------------------------------------------------------ manual invalidation
\* Regular and permanent entries of one entity and the three manual
\* invalidation methods, with and without a pattern-capable store
NextManual ==
    \/ \E m \in Focus, o \in SchedOptions : ~is_registered(m) /\ register(m, o)
    \/ \E b \in BOOLEAN : SetEnabled(b)
    \/ \E m \in Focus : \E q \in QueryShapes : Evaluate(Refine(get_queryset(m), q))
    \/ \E m \in Focus : \E q \in QueryShapes : Evaluate(Refine(manager_permanent_cache(m), q))
    \/ \E m \in Focus : Save(m, 1, TRUE)
    \/ \E m \in Focus : \E qs \in QuerySetsOf(m) : \E b \in BOOLEAN :
          QuerySetInvalidateCache(qs, b)
    \/ \E m \in Focus, b \in BOOLEAN : ManagerInvalidateCache(m, b)
    \/ \E m \in Focus, b \in BOOLEAN : ModelInvalidateCache(m, b)

SpecManual == Init /\ [][NextManual]_vars

\* ------------------------------------------------------------------ chains
\* Querysets built step by step from either manager route and evaluated
NextChain ==
    \/ \E m \in Focus, o \in SchedOptions : ~is_registered(m) /\ register(m, o)
    \/ \E m \in Focus : Save(m, 1, TRUE)
    \/ \E m \in Focus : \E qs \in {get_queryset(m), manager_permanent_cache(m)} :
          StartQuery(qs)
    \/ \E op \in QueryOps \ {"get_queryset"}, q \in QueryShapes : Chain(op, q)
    \/ EvaluateInHand

SpecChain == InitToggle /\ [][NextChain]_vars

\* ------------------------------------------------------------------ the sweep
\* Two entities, the three scheduler modes, a cache store whose delete may
\* fail, and the sweep over everything registered.
InitSweep ==
    /\ InitCommon
    /\ backend = "delete_pattern"
    /\ asyncEnabled \in BOOLEAN
    /\ onCommit = TRUE
    /\ warmDefault = FALSE
    /\ celery \in BOOLEAN

NextSweep ==
    \/ \E m \in Models, o \in SchedOptions : ~is_registered(m) /\ register(m, o)
    \/ \E b \in BOOLEAN : SetEnabled(b)
    \/ \E f \in {{}, {"cache_delete"}} : SetFaults(f)
    \/ \E m \in Models : Evaluate(Refine(get_queryset(m), "f1"))
    \/ \E m \in Models : Save(m, 1, TRUE)
    \/ \E order \in RegisteredOrders, p \in BOOLEAN, brokerUp \in BOOLEAN :
          InvalidateAllCaches(order, p, brokerUp)
    \/ RunTask

SpecSweep == InitSweep /\ [][NextSweep]_vars

\* ------------------------------------------------------------------ nothing to invalidate
\* Two entities of which either may be unregistered, the global switch, and
\* every entry point of the invalidation, under synchronous invalidation
NextNoop ==
    \/ \E m \in Models, o \in SchedOptions : ~is_registered(m) /\ register(m, o)
    \/ setup_cache_invalidation
    \/ \E b \in BOOLEAN : SetEnabled(b)
    \/ \E m \in Models : Evaluate(Refine(get_queryset(m), "f1"))
    \/ \E m \in Models : Save(m, 1, TRUE)
    \/ \E m \in Models, p \in BOOLEAN : InvalidateModelCache(m, p)
    \/ \E m \in Models, p \in BOOLEAN, warmArg \in {<<>>, <<TRUE>>} :
          ScheduleInvalidation(m, p, warmArg, TRUE)
    \/ \E order \in RegisteredOrders, p \in BOOLEAN : InvalidateAllCaches(order, p, TRUE)

SpecNoop == InitToggle /\ [][NextNoop]_vars

\* ------------------------------------------------------------------ permanent routes
\* The permanent variant reached from a queryset and from the manager:
\* evaluations, bulk updates and bulk deletes of both
PermanentRoutes(m) ==
    { Refine(base, q) :
        base \in {permanent_cache(get_queryset(m)), manager_permanent_cache(m)},
        q \in QueryShapes }

NextRoutes ==
    \/ \E m \in Focus, o \in SchedOptions : ~is_registered(m) /\ register(m, o)
    \/ \E m \in Focus : \E qs \in PermanentRoutes(m) : Evaluate(qs)
    \/ \E m \in Focus : Evaluate(Refine(get_queryset(m), "f1"))
    \/ \E m \in Focus, pk \in Pks : Save(m, pk, TRUE)
    \/ \E m \in Focus : \E qs \in PermanentRoutes(m) : Update(qs)
    \/ \E m \in Focus : \E qs \in PermanentRoutes(m) : QuerySetDelete(qs, TRUE)

SpecRoutes == InitToggle /\ [][NextRoutes]_vars

\* ------------------------------------------------------------------ registration
\* A model registered again and again, with saves and deletes in between.
\* The first registration uses the full policy; later ones any policy.
NextRegister ==
    \/ \E m \in Focus, o \in SchedOptions : ~is_registered(m) /\ register(m, o)
    \/ \E m \in Focus, o \in OptionChoices : is_registered(m) /\ register(m, o)
    \/ \E m \in Focus : \E q \in QueryShapes : Evaluate(Refine(get_queryset(m), q))
    \/ \E m \in Focus, pk \in Pks : Save(m, pk, TRUE)
    \/ \E m \in Focus, pk \in Pks : Delete(m, pk, TRUE)

SpecRegister == InitToggle /\ [][NextRegister]_vars

\* ------------------------------------------------------------------ purging
\* Regular and permanent entries side by side, over every kind of cache
\* backend the pattern deletion distinguishes.
Backends == {"delete_pattern", "redis", "redis_prefixed", "scan_iter", "plain"}

InitPurge ==
    /\ InitCommon
    /\ backend \in Backends
    /\ asyncEnabled = FALSE
    /\ onCommit = TRUE
    /\ warmDefault = FALSE
    /\ celery = FALSE

NextPurge ==
    \/ \E m \in Focus, o \in SchedOptions : ~is_registered(m) /\ register(m, o)
    \/ \E m \in Focus : \E q \in QueryShapes : Evaluate(Refine(get_queryset(m), q))
    \/ \E m \in Focus : \E q \in QueryShapes : Evaluate(Refine(manager_permanent_cache(m), q))
    \/ \E k \in DOMAIN store : Expire(k)
    \/ \E m \in Focus, p \in BOOLEAN : InvalidateModelCache(m, p)
    \/ \E m \in Focus, pk \in Pks : Save(m, pk, TRUE)
    \/ \E m \in Focus : Delete(m, 1, TRUE)

SpecPurge == InitPurge /\ [][NextPurge]_vars

\* Both entities with regular and permanent entries, over every kind of
\* cache backend
NextFrame ==
    \/ \E m \in Models, o \in SchedOptions : ~is_registered(m) /\ register(m, o)
    \/ \E m \in Models : \E q \in QueryShapes : Evaluate(Refine(get_queryset(m), q))
    \/ \E m \in Models : Evaluate(Refine(manager_permanent_cache(m), "f1"))
    \/ \E m \in Models : Save(m, 1, TRUE)
    \/ \E m \in Models, p \in BOOLEAN : InvalidateModelCache(m, p)

SpecFrame == InitPurge /\ [][NextFrame]_vars

\* Queries while calls on the cache store or on the database fail
ReadFaultSets ==
    {{}, {"cache_get"}, {"cache_set"}, {"db_read"}, {"db_read", "db_count"}}

FaultQuerySets(m) ==
    {get_queryset(m), Refine(get_queryset(m), "f1"), manager_permanent_cache(m)}

InitFaults == InitToggle

NextReadFaults ==
    \/ \E m \in Focus, o \in SchedOptions : ~is_registered(m) /\ register(m, o)
    \/ \E f \in ReadFaultSets : SetFaults(f)
    \/ \E m \in Focus : \E qs \in FaultQuerySets(m) : Evaluate(qs)
    \/ \E m \in Focus : Count(get_queryset(m))
    \/ \E m \in Focus : Exists(get_queryset(m))
    \/ \E m \in Focus, pk \in Pks : Save(m, pk, TRUE)
    \/ \E m \in Focus, pk \in Pks : Delete(m, pk, TRUE)

SpecReadFaults == InitFaults /\ [][NextReadFaults]_vars

\* ------------------------------------------------------------------ timeouts
\* Policies with no timeout (None), a timeout of zero and a positive timeout
TimeoutOptions ==
    [cache_table : {TRUE}, cache_queryset : {TRUE}, timeout : {<<>>, <<0>>, <<60>>}]

NextTimeout ==
    \/ \E m \in Focus, o \in TimeoutOptions : ~is_registered(m) /\ register(m, o)
    \/ \E m \in Focus : \E qs \in FaultQuerySets(m) : Evaluate(qs)
    \/ \E k \in DOMAIN store : Expire(k)
    \/ \E m \in Focus, pk \in Pks : Save(m, pk, TRUE)
    \/ \E m \in Focus : Delete(m, 1, TRUE)

SpecTimeout == InitToggle /\ [][NextTimeout]_vars

\* ------------------------------------------------------------------ races
\* Two processes evaluating step by step while a third saves instances
RaceOptions == [cache_table : BOOLEAN, cache_queryset : {TRUE}, timeout : {<<>>}]

NextRace ==
    \/ \E m \in Focus, o \in RaceOptions : ~is_registered(m) /\ register(m, o)
    \/ \E p \in Procs, m \in Focus : \E qs \in FaultQuerySets(m) : CacheLookup(p, qs)
    \/ \E p \in Procs : FetchRows(p)
    \/ \E p \in Procs : StoreResult(p)
    \/ \E m \in Focus, pk \in Pks : Save(m, pk, TRUE)

SpecRace == InitToggle /\ [][NextRace]_vars

\* Writes while deletes on the cache store or writes to the database fail
WriteFaultSets == {{}, {"cache_delete"}, {"db_write"}}

NextWriteFaults ==
    \/ \E m \in Focus, o \in SchedOptions : ~is_registered(m) /\ register(m, o)
    \/ setup_cache_invalidation
    \/ \E f \in WriteFaultSets : SetFaults(f)
    \/ \E m \in Focus : Evaluate(get_queryset(m))
    \/ \E m \in Focus, pk \in Pks : Save(m, pk, TRUE)
    \/ \E m \in Focus, pk \in Pks : Delete(m, pk, TRUE)
    \/ \E m \in Focus : MixinSave(m, 1, TRUE)
    \/ \E m \in Focus : MixinDelete(m, 1, TRUE)
    \/ \E m \in Focus : \E qs \in {get_queryset(m), manager_permanent_cache(m)} : Update(qs)
    \/ \E m \in Focus : \E qs \in {get_queryset(m), manager_permanent_cache(m)} :
          QuerySetDelete(qs, TRUE)
    \/ \E m \in Focus, pk \in Pks : bulk_create(m, {pk})
    \/ \E m \in Focus : bulk_update(m)

SpecWriteFaults == InitFaults /\ [][NextWriteFaults]_vars

\* The scheduler: every combination of the async settings (warming asked for
\* by argument, not by default), transactions, the task runner, and the
\* signal receivers
InitSched ==
    /\ InitCommon
    /\ backend = "delete_pattern"
    /\ asyncEnabled \in BOOLEAN
    /\ onCommit \in BOOLEAN
    /\ warmDefault = FALSE
    /\ celery \in BOOLEAN

NextSched ==
    \/ \E m \in Focus, o \in SchedOptions : ~is_registered(m) /\ register(m, o)
    \/ setup_cache_invalidation
    \/ \E m \in Focus : Evaluate(get_queryset(m))
    \/ \E m \in Focus, p \in BOOLEAN, warmArg \in {<<>>, <<TRUE>>},
          brokerUp \in BOOLEAN : ScheduleInvalidation(m, p, warmArg, brokerUp)
    \/ \E m \in Focus, brokerUp \in BOOLEAN : Save(m, 1, brokerUp)
    \/ \E m \in Focus, brokerUp \in BOOLEAN : Delete(m, 1, brokerUp)
    \/ BeginAtomic
    \/ \E brokerUp \in BOOLEAN : CommitAtomic(brokerUp)
    \/ RollbackAtomic
    \/ BeginManual
    \/ \E commit \in BOOLEAN : EndManual(commit)
    \/ RunTask

SpecSched == InitSched /\ [][NextSched]_vars

\* ------------------------------------------------------------------ progress
\* The scheduler scenarios with the queryset update, under fairness: a
\* transaction that is open is eventually left (commit or rollback) and a
\* queued task is eventually run by a worker.
EndTransaction ==
    \/ \E brokerUp \in BOOLEAN : CommitAtomic(brokerUp)
    \/ RollbackAtomic
    \/ \E commit \in BOOLEAN : EndManual(commit)

NextLive ==
    \/ NextSched
    \/ \E m \in Focus : \E qs \in {get_queryset(m), manager_permanent_cache(m)} : Update(qs)

SpecLive ==
    /\ InitSched
    /\ [][NextLive]_vars
    /\ WF_vars(RunTask)
    /\ WF_vars(EndTransaction)

\* ------------------------------------------------------------------ properties
\* the key a whole-table query of m reads and writes on the regular path
TableKey(m) == _generate_cache_key(get_queryset(m), "table")

IsEval(l) == l.op = "evaluate"
\* the evaluation reached the lookup: policy caches the query
Cacheable(l) == IsEval(l) /\ l.key # <<>>
\* the evaluation missed and ran the query
Missed(l) == Cacheable(l) /\ l.executed

\* C1: after invalidate_model_cache(E) has run for a registered entity E with
\* caching enabled, the regular table-shape key of E is absent from the store.
C1_TableKeyAbsentAfterInvalidate ==
    (last.op = "invalidate_model_cache" /\ enabled /\ is_registered(last.model))
        => ~CacheHas(store, TableKey(last.model))

\* C2: with cache_table and cache_queryset on, a fetch-all that follows the
\* save of a new instance (the table entry having been populated by an earlier
\* fetch-all) runs against the backing store and returns the saved record.
C2_FetchAfterSaveIsFresh ==
    [][ ( /\ last.op = "save" /\ last.outcome = "created"
          /\ enabled /\ is_registered(last.model)
          /\ registry[last.model].cache_table /\ registry[last.model].cache_queryset
          /\ IsEval(last') /\ last'.qs = get_queryset(last.model) )
        => ( /\ last'.executed
             /\ \E i \in 1..Len(last'.result) : last'.result[i] = last.result[1] )
      ]_vars

\* C3: a miss with a non-empty result followed at once by an evaluation of the
\* same query is answered from the store, without a second execution, by the
\* very value the miss stored (same rows, same order).
C3_MissThenHitRoundTrip ==
    [][ ( /\ Missed(last) /\ last.result # <<>>
          /\ IsEval(last') /\ last'.qs = last.qs )
        => ( /\ CacheHas(store, last.key[1])
             /\ CacheGet(store, last.key[1]) = last.result
             /\ last'.outcome = "hit"
             /\ ~last'.executed
             /\ last'.result = last.result )
      ]_vars

C3_Witness ==
    /\ IsEval(last) /\ last.outcome = "hit" /\ last.prev = "miss"
    /\ Len(last.result) = 2

\* C4: on the regular path a cacheable query that yields no rows leaves no
\* entry at its key, and the same query evaluated next runs again.
C4_RegularEmptyNotStored ==
    [][ /\ ( /\ Missed(last') /\ ~last'.qs.is_permanent_cache
             /\ last'.result = <<>> )
           => ~CacheHas(store', last'.key[1])
        /\ ( /\ Missed(last) /\ ~last.qs.is_permanent_cache /\ last.result = <<>>
             /\ IsEval(last') /\ last'.qs = last.qs /\ enabled' = enabled )
           => last'.executed
      ]_vars

C4_Witness ==
    /\ IsEval(last) /\ last.prev = "empty" /\ last.outcome = "empty"
    /\ ~last.qs.is_permanent_cache /\ last.executed

C6_DisabledPassthrough ==
    [][ ~enabled =>
          /\ IsEval(last') => ( /\ last'.executed
                                /\ last'.outcome = "direct"
                                /\ last'.result = Execute(db, last'.qs) )
          /\ \A k \in DOMAIN store' : k \in DOMAIN store /\ store'[k] = store[k]
          /\ last'.op = "register" => registry' = registry
      ]_vars

C6_Witness ==
    /\ ~enabled /\ IsEval(last) /\ last.prev = "direct"
    /\ last.qs.use_cache /\ DecideKey(last.qs) # <<>>
    /\ last.result # <<>>
    /\ ~CacheHas(store, DecideKey(last.qs)[1])

\* C7: a no_cache() query runs against the backing store on every
\* evaluation, does not read the store and leaves it unchanged, also when the
\* entity is registered, policy would cache the query and an entry exists.
C7_NoCacheBypass ==
    [][ (IsEval(last') /\ ~last'.qs.use_cache)
        => ( /\ last'.executed
             /\ last'.outcome = "direct"
             /\ last'.result = Execute(db, last'.qs)
             /\ store' = store )
      ]_vars

C7_Witness ==
    /\ IsEval(last) /\ ~last.qs.use_cache /\ last.prev = "direct" /\ enabled
    /\ DecideKey([last.qs EXCEPT !.use_cache = TRUE]) # <<>>
    /\ CacheHas(store, DecideKey([last.qs EXCEPT !.use_cache = TRUE])[1])
    /\ CacheGet(store, DecideKey([last.qs EXCEPT !.use_cache = TRUE])[1]) # last.result

Delays(calls) == SelectSeq(calls, LAMBDA c : c.fn = "delay")
Handoff(c) == <<c.model, c.permanent, c.warm>>

\* C8: whenever the task hand-off (.delay) raises, the same operation goes on
\* to call invalidate_model_cache for the same model with the same
\* invalidate_permanent flag, then the warmers if and only if warming was
\* asked for; no exception leaves the scheduler.
C8_FallbackToSync ==
    LET calls == last.calls IN
    /\ \A i \in 1..Len(calls) : calls[i].fn # "raise"
    /\ \A i \in 1..Len(calls) :
          (calls[i].fn = "delay" /\ calls[i].raised)
              => /\ i < Len(calls)
                 /\ calls[i + 1] = InvCall(calls[i].model, calls[i].permanent)
                 /\ IF calls[i].warm
                    THEN i + 1 < Len(calls) /\ calls[i + 2] = WarmCall(calls[i].model)
                    ELSE i + 1 < Len(calls) => calls[i + 2].fn # "_run_warmers_for_model"

C8_Witness ==
    /\ asyncEnabled /\ celery /\ is_registered(last.model)
    /\ last.op = "schedule_invalidation"
    /\ Len(last.calls) = 3
    /\ last.calls[1].fn = "delay" /\ last.calls[1].raised
    /\ last.calls[1].permanent /\ last.calls[1].warm

\* C9 as stated: with async dispatch and commit-deferral enabled, a
\* schedule_invalidation call made while any transaction is open hands
\* nothing to the task runner in that step.
C9_NothingBeforeCommit ==
    [][ (asyncEnabled /\ onCommit /\ txn # <<>>
            /\ last'.op = "schedule_invalidation")
        => Delays(last'.calls) = <<>>
      ]_vars

\* C9, amended: with async dispatch and commit-deferral enabled, inside a
\* transaction.atomic() block a schedule_invalidation call hands nothing over
\* and registers one callback; leaving an inner block hands nothing over;
\* a rollback hands nothing over and discards the block's callbacks; the
\* outermost commit hands over each registered callback exactly once, in order.
C9_AtomicDeferred ==
    [][ (asyncEnabled /\ onCommit /\ InAtomic)
        => /\ last'.op = "schedule_invalidation"
                => /\ last'.calls = <<>>
                   /\ queue' = queue /\ store' = store
                   /\ Len(txn') = Len(txn)
                   /\ Outer = SubSeq(txn', 1, Len(txn) - 1)
                   /\ Len(txn'[Len(txn)].cbs) = Len(Top.cbs) + 1
                   /\ SubSeq(txn'[Len(txn)].cbs, 1, Len(Top.cbs)) = Top.cbs
                   /\ txn'[Len(txn)].cbs[Len(Top.cbs) + 1].model = last'.model
           /\ last'.op = "rollback"
                => /\ last'.calls = <<>>
                   /\ queue' = queue /\ store' = store
                   /\ txn' = Outer
           /\ (last'.op = "commit" /\ txn' # <<>>)
                => /\ last'.calls = <<>>
                   /\ queue' = queue /\ store' = store
                   /\ Pending(txn') = Pending(txn)
           /\ (last'.op = "commit" /\ txn' = <<>>)
                => /\ Len(Delays(last'.calls)) = Len(Top.cbs)
                   /\ \A i \in 1..Len(Top.cbs) :
                         Handoff(Delays(last'.calls)[i]) = Handoff(Top.cbs[i])
      ]_vars

C9_Witness ==
    /\ asyncEnabled /\ onCommit /\ celery
    /\ last.op = "commit" /\ txn = <<>>
    /\ Len(Delays(last.calls)) = 1
    /\ queue # <<>>

\* ------------------------------------------------------------------ failures
AllWriteOps == {"save", "delete", "mixin_save", "mixin_delete", "update",
                "queryset_delete", "bulk_create", "bulk_update", "bulk_delete"}


\* ------------------------------------------------------------------ kinds of entries
\* the key k is a cache key of entity m of the given kind
\* ("table", "queryset" or "permanent")
IsKeyOf(k, kind, m) == Len(k) >= 5 /\ k[3] = kind /\ k[5] = ModelLabel(m)

\* the permanent-kind entries of a store, of every entity and both shapes
PermEntries(st) == [k \in {x \in DOMAIN st : x[3] = "permanent"} |-> st[k]]

PermanentRequested(calls) ==
    \E i \in 1..Len(calls) : calls[i].fn = "invalidate_model_cache" /\ calls[i].permanent

\* C12: a step that is a write or an invalidation without the permanent flag
\* leaves the permanent entries exactly as they were; a permanent entry
\* disappears only in a timeout step or in a step that invalidates with the
\* permanent flag set.
C12_PermanentSurvives ==
    [][ /\ ( /\ last'.op \in AllWriteOps \cup {"invalidate_model_cache"}
             /\ ~PermanentRequested(last'.calls) )
           => PermEntries(store') = PermEntries(store)
        /\ (\E k \in DOMAIN PermEntries(store) : k \notin DOMAIN store')
           => (last'.op = "expire" \/ PermanentRequested(last'.calls))
      ]_vars

C12_Witness ==
    /\ last.op = "invalidate_model_cache" /\ ~PermanentRequested(last.calls)
    /\ last.result # <<0>> /\ is_registered(last.model)
    /\ \E k \in DOMAIN store : IsKeyOf(k, "permanent", last.model) /\ Len(k) = 5
    /\ \E k \in DOMAIN store : IsKeyOf(k, "permanent", last.model) /\ Len(k) > 5

\* C13: after invalidate_model_cache(E, invalidate_permanent=True) on a
\* registered entity, with a store that can delete by pattern, no permanent
\* key of E, table-shaped or queryset-shaped, is in the store.
C13_PermanentKeysPurged ==
    ( /\ last.op = "invalidate_model_cache" /\ PermanentRequested(last.calls)
      /\ enabled /\ is_registered(last.model) /\ backend = "delete_pattern" )
        => \A k \in DOMAIN store : ~IsKeyOf(k, "permanent", last.model)

\* C14: after invalidate_model_cache(E) on a registered entity, with a store
\* that can delete by pattern or enumerate its keys, no regular queryset-shaped
\* key of E is in the store, and a filtered query of E evaluated next runs
\* against the backing store.
C14_QuerysetKeysPurged ==
    [][ ( /\ last'.op = "invalidate_model_cache"
          /\ enabled /\ is_registered(last'.model) /\ backend # "plain" )
        => /\ \A k \in DOMAIN store' : ~IsKeyOf(k, "queryset", last'.model)
           /\ \A qs \in {Refine(get_queryset(last'.model), "f1")} :
                 LET r == _cache_queryset(qs, store', db') IN
                 r.executed /\ r.result = Execute(db', qs)
      ]_vars

C14_Witness ==
    /\ last.op = "invalidate_model_cache" /\ enabled /\ is_registered(last.model)
    /\ backend = "redis_prefixed"
    /\ ~PermanentRequested(last.calls) /\ last.result = <<1>>
    /\ DOMAIN store # {} /\ \A k \in DOMAIN store : IsKeyOf(k, "table", last.model)
    /\ db[last.model] # <<>>

\* what the sync path of schedule_invalidation(m, p, warm) calls, and the
\* store it leaves when run on the store st
SyncCalls(m, p, warm) ==
    IF warm THEN <<InvCall(m, p), WarmCall(m)>> ELSE <<InvCall(m, p)>>
SyncStore(st, m, p, warm, tbl) ==
    LET s1 == invalidate_model_cache(st, m, p) IN
    IF warm THEN _run_warmers_for_model(s1, m, tbl) ELSE s1

\* C30: after a synchronous schedule_invalidation with warming, for a
\* registered entity with cache_table set and a non-empty table, the regular
\* table entry is in the store and holds the current rows of the table.
C30_WarmedTableFresh ==
    ( /\ last.op = "schedule_invalidation" /\ ~asyncEnabled /\ enabled
      /\ is_registered(last.model) /\ registry[last.model].cache_table
      /\ last.calls = SyncCalls(last.model, last.calls[1].permanent, TRUE)
      /\ db[last.model] # <<>> )
        => LET key == _generate_cache_key(get_queryset(last.model), "table") IN
           /\ CacheHas(store, key)
           /\ CacheGet(store, key) = db[last.model]

\* C29: a hand-off that succeeded does what the sync path does. A worker
\* running a queued task resolves the model the caller named and makes the
\* sync path's calls with the caller's flags, leaving the store the sync path
\* would leave; and where .delay() runs the task in place (no Celery) the
\* scheduler step itself has done so when it returns.
C29_AsyncEqualsSync ==
    [][ /\ (last'.op = "task" /\ enabled)
           => \E m \in Models, p \in BOOLEAN, warm \in BOOLEAN :
                 /\ Head(queue) = <<"app", ClassName(m), PyStr(p), PyStr(warm)>>
                 /\ last'.calls = SyncCalls(m, p, warm)
                 /\ store' = SyncStore(store, m, p, warm, Committed)
        /\ ( /\ last'.op = "schedule_invalidation" /\ enabled
             /\ is_registered(last'.model)
             /\ asyncEnabled /\ ~celery /\ txn = <<>> )
           => \E p \in BOOLEAN, warm \in BOOLEAN :
                 /\ last'.outcome = Asked(p, warm)
                 /\ last'.calls = <<DelayCall(last'.model, p, warm, FALSE)>>
                                     \o SyncCalls(last'.model, p, warm)
                 /\ store' = SyncStore(store, last'.model, p, warm, db)
      ]_vars

\* a write of the entity m that changed or touched rows and returned
WriteDone(m) ==
    /\ last.op \in AllWriteOps /\ last.model = m
    /\ last.outcome \in {"created", "deleted", "updated"} /\ last.result # <<>>
    /\ enabled /\ is_registered(m)

\* the operation just done called invalidate_model_cache for m
Invalidated(m) ==
    \E i \in 1..Len(last.calls) :
        last.calls[i].fn = "invalidate_model_cache" /\ last.calls[i].model = m

\* C28: under fairness, every successful write of a registered entity with
\* caching enabled leads to an execution of invalidate_model_cache for the
\* entity, in the same operation or a later one (commit hook, task), unless a
\* transaction rolls back.
C28_WriteLeadsToPurge ==
    \A m \in Focus : WriteDone(m) ~> (Invalidated(m) \/ last.op = "rollback")

\* C27: with async dispatch and commit-deferral enabled, a save or delete of
\* an instance of a registered entity made inside an open transaction.atomic()
\* block calls invalidate_model_cache not at all in that step and removes no
\* entry from the store.
C27_NoPurgeBeforeCommit ==
    [][ ( /\ asyncEnabled /\ onCommit /\ enabled /\ InAtomic
          /\ last'.op \in {"save", "delete"} /\ is_registered(last'.model) )
        => /\ \A i \in 1..Len(last'.calls) :
                 last'.calls[i].fn # "invalidate_model_cache"
           /\ DOMAIN store \subseteq DOMAIN store'
      ]_vars

\* C26: without Celery, every .delay() hand-off made by schedule_invalidation
\* in async mode has run invalidate_model_cache for the same model with the
\* same invalidate_permanent flag by the time the operation returns.
C26_ShimRunsTask ==
    ( /\ asyncEnabled /\ ~celery /\ enabled
      /\ last.op = "schedule_invalidation" /\ is_registered(last.model) )
        => \A i \in 1..Len(last.calls) :
              last.calls[i].fn = "delay"
                  => \E j \in (i + 1)..Len(last.calls) :
                        last.calls[j] = InvCall(last.calls[i].model,
                                                last.calls[i].permanent)

\* C25: for a registered entity, with caching enabled and a query that uses
\* the cache, the evaluation works on a table-shaped key when the query is
\* trivial and cache_table is set; on a queryset-shaped key when the query is
\* not trivial and cache_queryset is set, or when it is trivial, cache_queryset
\* is set and cache_table is not; in every other case it executes the query
\* directly, uses no key and leaves the store as it was.
C25_CachingDecision ==
    [][ ( /\ IsEval(last') /\ enabled /\ is_registered(last'.model)
          /\ last'.qs.use_cache )
        => LET qs == last'.qs
               trivial == qs.q = "all"
               o == registry[qs.model]
               shape == IF trivial /\ o.cache_table THEN "table"
                        ELSE IF ~trivial /\ o.cache_queryset THEN "queryset"
                        ELSE IF trivial /\ o.cache_queryset /\ ~o.cache_table
                        THEN "queryset"
                        ELSE "direct"
           IN  /\ shape = "table"
                    => /\ last'.key = <<_generate_cache_key(qs, "table")>>
                       /\ last'.outcome \in {"hit", "miss", "empty"}
               /\ shape = "queryset"
                    => /\ last'.key = <<_generate_cache_key(qs, "queryset")>>
                       /\ last'.outcome \in {"hit", "miss", "empty"}
               /\ shape = "direct"
                    => /\ last'.key = <<>> /\ last'.outcome = "direct"
                       /\ last'.executed /\ last'.result = Execute(db, qs)
                       /\ store' = store
               /\ last'.outcome = "hit"
                    => /\ ~last'.executed /\ store' = store
                       /\ last'.result = CacheGet(store, last'.key[1])
               /\ last'.outcome = "miss"
                    => /\ last'.executed /\ last'.result = Execute(db, qs)
                       /\ CacheGet(store', last'.key[1]) = last'.result
      ]_vars

C25_Witness ==
    /\ IsEval(last) /\ enabled /\ is_registered(last.model) /\ last.qs.use_cache
    /\ last.qs.q = "all"
    /\ registry[last.model].cache_queryset /\ ~registry[last.model].cache_table
    /\ last.outcome = "hit" /\ Len(last.key[1]) = 7

C23_FlagsSurviveClone ==
    [][ (last.op \in QueryOps /\ last'.op \in QueryOps \ {"get_queryset"})
        => /\ ~last.qs.use_cache => ~last'.qs.use_cache
           /\ last.qs.is_permanent_cache => last'.qs.is_permanent_cache
           /\ last'.op = "no_cache" => ~last'.qs.use_cache
           /\ last'.op = "permanent_cache" => last'.qs.is_permanent_cache
           /\ last'.qs.model = last.qs.model /\ last'.qs.cls = last.qs.cls
      ]_vars

C23_Witness ==
    /\ last.op = "_clone" /\ last.qs.cls = "CachedQuerySet"
    /\ ~last.qs.use_cache /\ last.qs.is_permanent_cache /\ last.qs.q = "f1"

ManualOps == {"queryset.invalidate_cache", "manager.invalidate_cache",
              "model.invalidate_cache"}

\* C22: queryset.invalidate_cache(invalidate_all=b), manager.invalidate_cache(
\* invalidate_all=b) and Model.invalidate_cache(invalidate_all=b) each make
\* exactly the call invalidate_model_cache(model, invalidate_permanent=b) and
\* leave the store in the state that call produces from the store before,
\* for both values of b; table, queue and transaction state are untouched.
C22_ManualSameEffect ==
    [][ last'.op \in ManualOps
        => \E b \in BOOLEAN :
              /\ last'.outcome = PyStr(b)
              /\ last'.calls = <<InvCall(last'.model, b)>>
              /\ store' = invalidate_model_cache(store, last'.model, b)
              /\ db' = db /\ queue' = queue /\ txn' = txn
      ]_vars

C22_Witness ==
    /\ last.op = "queryset.invalidate_cache" /\ last.outcome = PyStr(TRUE)
    /\ enabled /\ is_registered(last.model) /\ backend = "delete_pattern"
    /\ last.qs.q = "f1" /\ ~last.qs.use_cache
    /\ last.result = <<2>>
    /\ \A k \in DOMAIN store : Len(k) = 5

\* C21: two key derivations in a row, both on the non-fallback path (the
\* query compiled), for the same entity, the same cache kind (regular or
\* permanent), the same shape and the same canonical query string, give the
\* same key, whatever the query objects, the querysets' other flags and
\* classes, and the state of settings, registry and store.
C21_KeyDeterministic ==
    [][ ( /\ last.op = "_generate_cache_key" /\ last'.op = "_generate_cache_key"
          /\ last.executed /\ last'.executed
          /\ last'.model = last.model
          /\ last'.qs.is_permanent_cache = last.qs.is_permanent_cache
          /\ last'.outcome = last.outcome
          /\ QueryStr(last'.qs) = QueryStr(last.qs) )
        => last'.key = last.key
      ]_vars

C21_Witness ==
    /\ last.op = "_generate_cache_key" /\ last.prev = "derived"
    /\ last.executed /\ last.outcome = "queryset" /\ last.result = <<2>>
    /\ last.qs.cls = "PermanentCachedQuerySet" /\ ~last.qs.use_cache
    /\ last.key = <<GenerateCacheKey(manager_permanent_cache(last.model), "queryset",
                                     Compiled)>>
    /\ ~enabled /\ store # EmptyStore

\* C20: with async dispatch disabled (and caching enabled),
\* schedule_invalidation(model, invalidate_permanent, warm) calls
\* invalidate_model_cache(model, invalidate_permanent) exactly once, then the
\* warmers of the model exactly once if and only if warm is true; the store
\* holds their effect when the call returns, nothing is handed to the task
\* runner and no commit callback is registered, inside a transaction or not.
C20_SyncInline ==
    [][ (~asyncEnabled /\ enabled /\ last'.op = "schedule_invalidation")
        => \E p \in BOOLEAN, warm \in BOOLEAN :
              LET m == last'.model
                  st == invalidate_model_cache(store, m, p)
              IN  /\ last'.outcome = Asked(p, warm)
                  /\ last'.calls = IF warm THEN <<InvCall(m, p), WarmCall(m)>>
                                   ELSE <<InvCall(m, p)>>
                  /\ store' = IF warm THEN _run_warmers_for_model(st, m, db) ELSE st
                  /\ queue' = queue /\ txn' = txn
      ]_vars

C20_Witness ==
    /\ ~asyncEnabled /\ enabled /\ is_registered(last.model)
    /\ last.op = "schedule_invalidation" /\ last.outcome = Asked(TRUE, TRUE)
    /\ last.calls = <<InvCall(last.model, TRUE), WarmCall(last.model)>>
    /\ txn # <<>>
    /\ DOMAIN store # {}

Scheduled(calls) == SelectSeq(calls, LAMBDA c : c.fn = "schedule_invalidation")

\* C19: with caching enabled, invalidate_all_caches(p) calls
\* schedule_invalidation(model, invalidate_permanent=p) exactly once for every
\* registered model and for nothing else; every invalidate_model_cache call and
\* every task hand-off of the sweep is made inside the schedule_invalidation
\* call of its model, with its flag, and where the task runner accepts the
\* hand-offs the sweep calls invalidate_model_cache not at all; no exception
\* leaves the sweep, whatever a schedule_invalidation call raised.
C19_SweepUsesScheduler ==
    (last.op = "invalidate_all_caches" /\ enabled) =>
        LET calls == last.calls
            sched == Scheduled(calls)
        IN  /\ \A m \in DOMAIN registry :
                   Cardinality({i \in 1..Len(sched) : sched[i].model = m}) = 1
            /\ \A i \in 1..Len(sched) :
                   /\ sched[i].model \in DOMAIN registry
                   /\ PyStr(sched[i].permanent) = last.outcome
            /\ \A i \in 1..Len(calls) : calls[i].fn # "raise"
            /\ \A i \in 1..Len(calls) :
                   calls[i].fn \in {"invalidate_model_cache", "delay"}
                       => \E j \in 1..(i - 1) :
                             /\ calls[j] = SchedCall(calls[i].model, calls[i].permanent)
                             /\ \A k \in (j + 1)..(i - 1) :
                                   calls[k].fn # "schedule_invalidation"
            /\ ( /\ asyncEnabled /\ celery
                 /\ \A i \in 1..Len(calls) : ~calls[i].raised )
                   => \A i \in 1..Len(calls) : calls[i].fn # "invalidate_model_cache"

C19_Witness ==
    /\ last.op = "invalidate_all_caches" /\ enabled
    /\ DOMAIN registry = Models
    /\ Len(Scheduled(last.calls)) = 2
    /\ \E i \in 1..Len(last.calls) :
          /\ last.calls[i].fn = "caught" /\ last.calls[i].model = last.calls[1].model
          /\ \E j \in (i + 1)..Len(last.calls) :
                last.calls[j].fn = "schedule_invalidation"

Issued(calls) == SelectSeq(calls, LAMBDA c : c.fn \in {"invalidate_model_cache", "delay"})

Materializes(qs) ==
    /\ qs.use_cache /\ is_cache_enabled
    /\ DecideKey(qs) # <<>>
    /\ ~CacheHas(store, DecideKey(qs)[1])

\* C15: an evaluation during which cache.get or cache.set fails is treated as
\* a miss: it does not raise and returns the backing store's rows.
C15_CacheFailureIsMiss ==
    [][ ( /\ IsEval(last') /\ DecideKey(last'.qs) # <<>> /\ last'.qs.use_cache
          /\ faults \in {{"cache_get"}, {"cache_set"}} )
        => /\ last'.outcome # "raised"
           /\ last'.result = Execute(db, last'.qs)
      ]_vars

\* C16: a write operation during whose invalidation the store's delete fails
\* still returns to its caller without raising.
C16_DeleteFailureIgnored ==
    ( /\ last.op \in AllWriteOps /\ is_registered(last.model)
      /\ "cache_delete" \in faults /\ Issued(last.calls) # <<>> )
        => last.outcome \notin {"raised", "none"}

\* C17 as stated: whenever the query of a cacheable evaluation fails (iteration,
\* count or exists), the caller gets the exception.
C17_FailurePropagates ==
    [][ ( /\ last'.op \in {"evaluate", "count", "exists"}
          /\ Materializes(last'.qs) /\ "db_read" \in faults )
        => last'.outcome = "raised"
      ]_vars

\* C17, amended: when the query of a cacheable evaluation fails nothing is
\* written to the store; iteration raises; count() and exists() catch the
\* failure and ask the backing store directly, so they either raise (the direct
\* query fails too) or return the backing store's answer. No empty or cached
\* result stands in for the failed query.
C17_FailureNotMasked ==
    [][ ( /\ last'.op \in {"evaluate", "count", "exists"}
          /\ Materializes(last'.qs) /\ "db_read" \in faults )
        => /\ store' = store
           /\ last'.op = "evaluate" => last'.outcome = "raised"
           /\ last'.op = "count"
                => \/ last'.outcome = "raised" /\ "db_count" \in faults
                   \/ /\ last'.outcome = "fallback" /\ "db_count" \notin faults
                      /\ last'.result = <<Len(Execute(db, last'.qs))>>
           /\ last'.op = "exists"
                => \/ last'.outcome = "raised" /\ "db_count" \in faults
                   \/ /\ last'.outcome = "fallback" /\ "db_count" \notin faults
                      /\ last'.result = <<IF Execute(db, last'.qs) # <<>> THEN 1 ELSE 0>>
      ]_vars

C17_Witness ==
    /\ last.op = "evaluate" /\ last.outcome = "raised" /\ last.executed
    /\ "db_read" \in faults
    /\ is_registered(last.model) /\ last.qs.use_cache /\ DecideKey(last.qs) # <<>>
    /\ db[last.model] # <<>>
    /\ ~CacheHas(store, DecideKey(last.qs)[1])

\* C18: a database failure during CachedQuerySet.delete reaches the caller.
C18_DeleteFailureVisible ==
    ( /\ last.op = "queryset_delete" /\ last.qs.cls = "CachedQuerySet"
      /\ is_registered(last.model) /\ "db_write" \in faults )
        => last.outcome = "raised"

WriteOps == {"save", "delete", "update", "queryset_delete",
             "bulk_create", "bulk_update", "bulk_delete"}

\* C10: every successful write to a registered entity, through whichever
\* queryset or manager method it was issued, calls the invalidation of that
\* entity's regular cache entries.
C10_EveryWriteInvalidates ==
    (last.op \in WriteOps /\ enabled /\ is_registered(last.model))
        => \E i \in 1..Len(last.calls) :
              /\ last.calls[i].fn = "invalidate_model_cache"
              /\ last.calls[i].model = last.model

\* the warm-up blocks _run_warmers_for_model has for the entity m, in order
ExpectedWarmers(m) ==
    (IF is_registered(m) /\ registry[m].cache_table THEN <<"objects.all">> ELSE <<>>)
        \o DJANGO_CACHE_ME_WARMERS(m)

\* C31: when an invalidation warms, every warm-up block configured for the
\* entity (the whole-table warm, then each custom warmer) has run, in list
\* order, whichever of them failed, and no exception reached the caller.
C31_WarmersAllRun ==
    ( /\ last.op = "schedule_invalidation"
      /\ \E i \in DOMAIN last.calls : last.calls[i] = WarmCall(last.model) )
        => /\ [i \in DOMAIN last.warmed |-> last.warmed[i].warmer]
                 = ExpectedWarmers(last.model)
           /\ \A i \in DOMAIN last.calls : last.calls[i].fn # "raise"

\* the whole-table warm failed, and a warmer after a failed one succeeded
C31_Witness ==
    /\ last.op = "schedule_invalidation"
    /\ \E i \in DOMAIN last.calls : last.calls[i] = WarmCall(last.model)
    /\ Len(last.warmed) = 4
    /\ last.warmed[1].warmer = "objects.all" /\ last.warmed[1].failed
    /\ \E i, j \in DOMAIN last.warmed :
          i < j /\ last.warmed[i].failed /\ ~last.warmed[j].failed

\* the queryset-shape entries ("...:{model}:{hash}") of the entity m in st
ShapeEntries(st, m) ==
    [k \in {x \in DOMAIN st : Len(x) = 7 /\ x[5] = ModelLabel(m)} |-> st[k]]

\* C32: on a store without pattern deletion and without key enumeration an
\* invalidation (direct, or by a save or delete) returns normally and leaves
\* every queryset-shape entry of the entity as it was, and a filtered query
\* evaluated right after a write whose entry is still stored is answered from
\* that entry, without running the query.
C32_PlainStoreKeepsShapes ==
    [][ /\ ( /\ backend = "plain"
             /\ last'.op \in {"invalidate_model_cache", "save", "delete"} )
           => /\ \A i \in DOMAIN last'.calls : last'.calls[i].fn # "raise"
              /\ ShapeEntries(store', last'.model) = ShapeEntries(store, last'.model)
        /\ ( /\ backend = "plain"
             /\ last.op \in {"save", "delete"}
             /\ last'.op = "evaluate"
             /\ last'.qs = Refine(get_queryset(last'.model), "f1")
             /\ CacheHas(store, _generate_cache_key(last'.qs, "queryset")) )
           => /\ last'.outcome = "hit" /\ ~last'.executed
              /\ last'.result = CacheGet(store, _generate_cache_key(last'.qs, "queryset"))
      ]_vars

\* a filtered query answered from the store with rows the table no longer has
C32_Witness ==
    /\ backend = "plain"
    /\ last.op = "evaluate" /\ last.outcome = "hit" /\ last.qs.q = "f1"
    /\ ~last.qs.is_permanent_cache
    /\ last.result # Execute(db, last.qs)

\* C33: with caching switched off, or for an entity that is not registered,
\* invalidate_model_cache and schedule_invalidation change no store entry,
\* run no warmer and raise nothing; with caching switched off the same holds
\* for invalidate_all_caches and for the receiver auto_invalidate_cache
\* (which runs inside the save of a connected entity).
C33_NothingToInvalidate ==
    [][ ( \/ /\ last'.op \in {"invalidate_model_cache", "schedule_invalidation"}
             /\ (~enabled \/ ~is_registered(last'.model))
          \/ /\ last'.op = "invalidate_all_caches" /\ ~enabled
          \/ /\ last'.op = "save" /\ last'.model \in connected /\ ~enabled )
        => /\ store' = store
           /\ \A i \in DOMAIN last'.calls :
                 last'.calls[i].fn \notin {"_run_warmers_for_model", "raise"}
      ]_vars

\* C34: an evaluation that stores its result stores it with the policy's
\* timeout when the policy has one (anything but None), and with
\* DJANGO_CACHE_ME_TIMEOUT otherwise.
C34_ResolvedTimeout ==
    (last.op = "evaluate" /\ last.outcome = "miss")
        => LET timeout == registry[last.model].timeout IN
           /\ CacheHas(store, last.key[1])
           /\ store[last.key[1]].timeout =
                 IF timeout # <<>> THEN timeout[1] ELSE DJANGO_CACHE_ME_TIMEOUT

\* C35: two processes that missed the same key while both were inside
\* _cache_queryset, and both stored, stored equal values.
C35_RacingStoresAgree ==
    \A p, q \in Procs :
        ( /\ p # q
          /\ readers[p].pc = "done" /\ readers[q].pc = "done"
          /\ readers[p].overlap /\ readers[q].overlap
          /\ readers[p].stored /\ readers[q].stored
          /\ readers[p].key = readers[q].key )
            => readers[p].result = readers[q].result

\* C36: when no evaluation is in flight, every regular entry of a registered
\* entity that the pattern deletion covers (a key of queryset shape) holds
\* what its query selects from the table as it is now.
C36_NoStaleAfterRace ==
    (\A p \in Procs : ~InFlight(p))
        => \A m \in Focus, q \in QueryShapes :
              LET qs == Refine(get_queryset(m), q)
                  key == _generate_cache_key(qs, "queryset")
              IN  CacheHas(store, key) => CacheGet(store, key) = Execute(db, qs)

\* C37: whatever qs.permanent_cache() does, Model.objects.permanent_cache
\* would have done in the same state: an evaluation uses the same key, returns
\* the same rows and leaves the same store (empty results included), and a
\* bulk update or delete makes the same invalidation calls and leaves the
\* same store (the manager's variant makes none).
C37_PermanentRoutesAgree ==
    [][ \A m \in Focus, q \in QueryShapes :
           LET viaQuerySet == Refine(permanent_cache(get_queryset(m)), q)
               viaManager == Refine(manager_permanent_cache(m), q)
               r == _cache_queryset(viaManager, store, db)
           IN  /\ (last'.op = "evaluate" /\ last'.qs = viaQuerySet)
                  => /\ last'.key = r.key
                     /\ last'.result = r.result
                     /\ store' = r.store
               /\ (last'.op \in {"update", "queryset_delete"} /\ last'.qs = viaQuerySet)
                  => /\ last'.calls = <<>>
                     /\ store' = store
      ]_vars

\* the entries of st whose key names an entity other than m
OtherEntries(st, m) ==
    [k \in {x \in DOMAIN st : x[5] # ModelLabel(m)} |-> st[k]]

\* C38: invalidate_model_cache(m, p) leaves every entry of every other
\* entity in the store, with its value, whatever p and the backend are.
C38_OtherEntitiesUntouched ==
    [][ last'.op = "invalidate_model_cache"
        => OtherEntries(store', last'.model) = OtherEntries(store, last'.model) ]_vars

\* an invalidation that removed entries of its entity while the other
\* entity has regular and permanent entries in the store
C38_Witness ==
    /\ last.op = "invalidate_model_cache" /\ last.calls[1].permanent
    /\ last.result[1] > 1
    /\ \E k1, k2 \in DOMAIN OtherEntries(store, last.model) :
          k1[3] = "queryset" /\ k2[3] = "permanent"

\* C39: an invalidation (no warming) adds no key and changes no entry it
\* leaves, and running invalidate_model_cache again with the same arguments
\* on the store it left changes nothing.
C39_InvalidateIdempotent ==
    [][ last'.op = "invalidate_model_cache"
        => /\ DOMAIN store' \subseteq DOMAIN store
           /\ \A k \in DOMAIN store' : store'[k] = store[k]
           /\ invalidate_model_cache(store', last'.model, last'.calls[1].permanent)
                 = store'
      ]_vars

\* an invalidation that removed entries of the entity and left others
C39_Witness ==
    /\ last.op = "invalidate_model_cache" /\ is_registered(last.model)
    /\ last.result[1] > 0
    /\ \E k \in DOMAIN store : k[5] = ModelLabel(last.model)

\* C40: however often a model has been registered, its save and delete carry
\* one wrapper, the registry holds for it the options of the latest
\* registration, and a save or delete writes once (one row) and calls
\* invalidate_model_cache once.
C40_WrappedOnce ==
    /\ \A m \in Models : is_registered(m) => injected[m] = 1
    /\ last.op = "register" => registry[last.model] = last.options[1]
    /\ (last.op \in {"save", "delete"} /\ is_registered(last.model))
          => /\ Len(last.result) = 1
             /\ last.calls = <<InvCall(last.model, FALSE)>>

\* a save after a second registration (only a later registration can switch
\* cache_table off) that replaced the policy
C40_Witness ==
    /\ last.op = "save" /\ is_registered(last.model)
    /\ ~registry[last.model].cache_table
    /\ last.calls = <<InvCall(last.model, FALSE)>>
====
